---- MODULE Spec2Model ----
(***************************************************************************)
(* Model of the media player API server: the watch loop of the hybrid      *)
(* Linux provider (providers/linux.py), its MPRIS/WayDroid arbitration,    *)
(* the snapshot cache, the /now-playing and /vrchat/now-playing handlers,  *)
(* the WebSocket handler and the broadcast of media changes (main.py).     *)
(***************************************************************************)
EXTENDS Integers, FiniteSets, Sequences, TLC

(***************************************************************************)
(* Values.  Python's None and a raised exception are records of their own, *)
(* so that they compare unequal to every MediaInfo.                        *)
(***************************************************************************)
None == [kind |-> "none"]

Raised == [kind |-> "error"]

\* PlaybackStatus: the values of the str enum.
PlaybackStatus == {"playing", "paused", "stopped", "unknown"}

\* MediaInfo dataclass; title and artist may be empty strings.
MediaInfo(apps, titles, artists, albums) ==
    [source_app : apps, title : titles, artist : artists, album : albums,
     status : PlaybackStatus]

\* What LinuxMediaProvider.get_current_media can return: None, or a MediaInfo
\* built from the active player's metadata (empty strings included).
MprisResults ==
    {None} \cup MediaInfo({"Spotify", "Vlc"}, {"", "Song A"}, {"", "Artist X"},
                          {"", "Album"})

\* What WayDroidMediaProvider.get_current_media can return: None, or the
\* MediaInfo of parse_dumpsys_media_session, which is None when title and
\* artist are both empty and tags the app name with " (WayDroid)".
WayDroidResults ==
    {None} \cup {m \in MediaInfo({"Spotify (WayDroid)", "Vlc (WayDroid)"},
                                 {"", "Song A"}, {"", "Artist X"}, {"", "Album"}) :
                    ~(m.title = "" /\ m.artist = "")}

\* MediaInfo.to_dict
to_dict(m) ==
    [source_app |-> m.source_app, title |-> m.title, artist |-> m.artist,
     album |-> m.album, status |-> m.status, thumbnail |-> None]

(***************************************************************************)
(* HybridLinuxMediaProvider.get_current_media                              *)
(***************************************************************************)
status_priority_paused_first(status) ==
    IF status = "paused" THEN 3
    ELSE IF status = "playing" THEN 2
    ELSE IF status = "stopped" THEN 1
    ELSE 0

status_priority(status) ==
    IF status = "playing" THEN 3
    ELSE IF status = "paused" THEN 2
    ELSE IF status = "stopped" THEN 1
    ELSE 0

prefer_waydroid_strict(waydroid_priority, mpris_priority) ==
    waydroid_priority > mpris_priority

\* "if waydroid_priority >= mpris_priority: return waydroid_media"
prefer_waydroid(waydroid_priority, mpris_priority) ==
    waydroid_priority >= mpris_priority

\* The resolution of the two constituent results; waydroid_media is None when
\* the provider has no WayDroid constituent.
\* a variant that relabels the winning WayDroid snapshot with the MPRIS
\* player's name
HybridResolve_relabels(mpris_media, waydroid_media) ==
    IF mpris_media = None /\ waydroid_media = None THEN None
    ELSE IF mpris_media = None THEN waydroid_media
    ELSE IF waydroid_media = None THEN mpris_media
    ELSE IF prefer_waydroid(status_priority(waydroid_media.status),
                            status_priority(mpris_media.status))
         THEN [waydroid_media EXCEPT !.source_app = mpris_media.source_app]
         ELSE mpris_media

HybridResolve(mpris_media, waydroid_media) ==
    IF mpris_media = None /\ waydroid_media = None THEN None
    ELSE IF mpris_media = None THEN waydroid_media
    ELSE IF waydroid_media = None THEN mpris_media
    ELSE IF prefer_waydroid(status_priority(waydroid_media.status),
                            status_priority(mpris_media.status))
         THEN waydroid_media
         ELSE mpris_media

\* has_waydroid is "self._waydroid" being set; waydroid_out is what its
\* get_current_media returns when it is asked.
HybridGetCurrentMedia(has_waydroid, mpris_out, waydroid_out) ==
    HybridResolve(mpris_out, IF has_waydroid THEN waydroid_out ELSE None)

(***************************************************************************)
(* _has_changed of the watch loops (linux.py, waydroid.py, windows.py)     *)
(***************************************************************************)
fields_differ_with_album(last, cur) ==
    \/ last.title /= cur.title
    \/ last.artist /= cur.artist
    \/ last.status /= cur.status
    \/ last.source_app /= cur.source_app
    \/ last.album /= cur.album

\* a variant of the VRChat comparison that reads the album too
fields_differ_with_album_only(last, cur) ==
    \/ last.title /= cur.title
    \/ last.artist /= cur.artist
    \/ last.status /= cur.status
    \/ last.album /= cur.album

\* the final comparison of VRChatMediaProvider._has_changed
fields_differ_without_source_app(last, cur) ==
    \/ last.title /= cur.title
    \/ last.artist /= cur.artist
    \/ last.status /= cur.status

\* the final comparison of _has_changed, both operands being MediaInfo
fields_differ(last, cur) ==
    \/ last.title /= cur.title
    \/ last.artist /= cur.artist
    \/ last.status /= cur.status
    \/ last.source_app /= cur.source_app

\* a variant that reports a change only between two positive snapshots
_has_changed_between_positives(last_media_info, cur) ==
    IF last_media_info = None \/ cur = None THEN FALSE
    ELSE fields_differ(last_media_info, cur)

_has_changed_ignores_none(last_media_info, cur) ==
    IF cur = None THEN FALSE
    ELSE IF last_media_info = None THEN TRUE
    ELSE fields_differ(last_media_info, cur)

_has_changed(last_media_info, cur) ==
    IF last_media_info = None /\ cur = None THEN FALSE
    ELSE IF last_media_info = None \/ cur = None THEN TRUE
    ELSE fields_differ(last_media_info, cur)

\* VRChatMediaProvider._has_changed
VRChat_has_changed(last_media_info, cur) ==
    IF last_media_info = None /\ cur = None THEN FALSE
    ELSE IF last_media_info = None \/ cur = None THEN TRUE
    ELSE fields_differ_without_source_app(last_media_info, cur)

(***************************************************************************)
(* The snapshot cache of main.py.  Time is counted in whole seconds.       *)
(***************************************************************************)
CACHE_TTL_SECONDS == 30

is_valid_inclusive(cache, t) == (t - cache.timestamp) <= CACHE_TTL_SECONDS

\* MediaCache.is_valid, t being datetime.now()
is_valid(cache, t) == (t - cache.timestamp) < CACHE_TTL_SECONDS

update_cache_stores_none(cache, media, t) == [media |-> media, timestamp |-> t]

update_cache_reversed_time(cache, media, t) ==
    IF media /= None THEN [media |-> media, timestamp |-> 0 - t] ELSE cache

update_cache_stale_time(cache, media, t) ==
    IF media /= None
    THEN [media |-> media,
          timestamp |-> IF cache = None THEN t ELSE cache.timestamp]
    ELSE cache

\* update_cache: the new value of media_cache
update_cache(cache, media, t) ==
    IF media /= None THEN [media |-> media, timestamp |-> t] ELSE cache

get_cached_response_keeps_status(cache, t) ==
    IF cache = None
    THEN [media |-> None, is_cached |-> FALSE, last_updated |-> t]
    ELSE IF is_valid(cache, t) /\ cache.media /= None
    THEN [media |-> to_dict(cache.media), is_cached |-> TRUE,
          last_updated |-> cache.timestamp]
    ELSE [media |-> None, is_cached |-> FALSE, last_updated |-> t]

get_cached_response_ignores_ttl(cache, t) ==
    IF cache = None
    THEN [media |-> None, is_cached |-> FALSE, last_updated |-> t]
    ELSE [media |-> [to_dict(cache.media) EXCEPT !.status = "cached"],
          is_cached |-> TRUE, last_updated |-> cache.timestamp]

\* get_cached_response: (media_dict, is_cached, last_updated)
get_cached_response(cache, t) ==
    IF cache = None
    THEN [media |-> None, is_cached |-> FALSE, last_updated |-> t]
    ELSE IF is_valid(cache, t) /\ cache.media /= None
    THEN [media |-> [to_dict(cache.media) EXCEPT !.status = "cached"],
          is_cached |-> TRUE, last_updated |-> cache.timestamp]
    ELSE [media |-> None, is_cached |-> FALSE, last_updated |-> t]

(***************************************************************************)
(* Bounds of the model                                                     *)
(***************************************************************************)
MaxClients == 2

MaxBroadcasts == 2

MaxTime == 45

\* seconds by which the clock advances in one step
ClockStep == 15

Clients == 1 .. MaxClients

Tasks == 1 .. MaxBroadcasts

VARIABLES
    _waydroid,       \* HybridLinuxMediaProvider._waydroid is set
    agg_mpris,       \* result of self._mpris.get_current_media() in one fetch
    agg_waydroid,    \* result of self._waydroid.get_current_media() in it
    agg_result,      \* what that get_current_media returned, or Pending
    phase,           \* lifespan: "init", "serving", "stopping" (suspended in
                     \* stop_watching), "stopped"
    last_call,       \* the last call of start_watching or stop_watching of the
                     \* main provider and whether _watching was set before it
    provider,        \* main.provider: "None" or the provider's class name
    vrchat_provider, \* main.vrchat_provider is set
    _watching,       \* provider._watching
    _last_media_info,\* provider._last_media_info
    watch_pc,        \* provider._watch_task: "none", or the task's position
                     \* "created", "fetch", "sleep", "ended", "cancelled"
    sub_watching,    \* the sources of the hybrid provider that are watching
    source_last,     \* _last_media_info of each source of the hybrid provider
    current,         \* _watch_loop's local: the outcome of its last fetch
    now,             \* datetime.now(timezone.utc), in seconds
    media_cache,     \* main.media_cache: None or [media, timestamp]
    np,              \* the /now-playing handler: "idle" or "fetching"
    vr,              \* the /vrchat/now-playing handler, likewise
    response,        \* the response or connected event built last
    connected_clients, \* main.connected_clients
    ws,              \* the position of each client's websocket_endpoint
    bc,              \* the broadcast_media_change tasks
    ready,           \* created tasks that have not run yet, oldest first
    pruned,          \* clients a broadcast has removed from connected_clients
    vrchat_last_media_info, \* vrchat_provider._last_media_info
    vrchat_current,  \* the local "current" of vrchat_provider._watch_loop
    untracked_pc,    \* a loop task of the main provider that _watch_task no
                     \* longer refers to: "none", or the task's position
    rpc,             \* DiscordMediaPresence.rpc: "none", "connected", "closed"
    _last_media,     \* DiscordMediaPresence._last_media
    dp_media,        \* run's local: the outcome of its last fetch
    dp_pc,           \* the position of DiscordMediaPresence.run
    remote,          \* the presence Discord shows for the application
    running,         \* DiscordMediaPresence.running
    closures         \* how many times Discord has closed a connected pipe

aggVars == <<agg_mpris, agg_waydroid, agg_result>>

provVars == <<phase, last_call, provider, vrchat_provider, _waydroid>>

watchVars ==
    <<_watching, _last_media_info, watch_pc, current, sub_watching, source_last>>

httpVars == <<np, vr, response>>

wsVars == <<connected_clients, ws>>

bcVars == <<bc, ready, pruned>>

discVars == <<rpc, _last_media, dp_media, dp_pc, remote, running, closures>>

vrchatVars == <<vrchat_last_media_info, vrchat_current>>

otherVars == <<vrchatVars, untracked_pc, discVars>>

vars ==
    <<aggVars, provVars, watchVars, now, media_cache, httpVars, wsVars, bcVars,
      otherVars>>

Pending == [kind |-> "pending"]

NoResponse == [kind |-> "no response"]

\* a broadcast task that does not exist, has returned or has ended; "older"
\* are the tasks created before it that have not ended, "overtaken" the
\* clients a task created after it has sent to before it did; "stale" says
\* that the cache holds a snapshot fetched after the task's own
TaskRecord(pc) ==
    [pc |-> pc, media |-> None, si_used |-> 0, todo |-> {}, cur |-> 0,
     disconnected |-> {}, sent |-> {}, older |-> {}, overtaken |-> {},
     stale |-> FALSE]

\* a handler has cached the snapshot it has just fetched: the snapshots of
\* the tasks that have not begun were fetched before it
Superseded(b) ==
    [k \in Tasks |-> IF b[k].pc = "created" THEN [b[k] EXCEPT !.stale = TRUE]
                                            ELSE b[k]]

\* the clients task k has sent or is sending its message to
Attempted(b, k) ==
    b[k].sent \cup b[k].disconnected \cup (IF b[k].pc = "sending" THEN {b[k].cur} ELSE {})

\* task j's send to its current client has returned, without an error if ok:
\* the older tasks that have not begun their send to that client are overtaken
Overtake(b, j, ok) ==
    [k \in Tasks |->
        IF ok /\ k \in b[j].older /\ b[j].cur \notin Attempted(b, k)
        THEN [b[k] EXCEPT !.overtaken = @ \cup {b[j].cur}]
        ELSE b[k]]

\* task i has ended: it is older than no task any more
Ended(b, i, pc) ==
    [k \in Tasks |-> IF k = i THEN TaskRecord(pc)
                              ELSE [b[k] EXCEPT !.older = @ \ {i}]]

\* the state of the module after import, before the lifespan handler runs
NoCall == [op |-> "none", watching |-> FALSE]

Call(op) == [op |-> op, watching |-> _watching]

ServerInit ==
    /\ phase = "init"
    /\ last_call = NoCall
    /\ provider = "None"
    /\ vrchat_provider = FALSE
    /\ _waydroid = FALSE
    /\ _watching = FALSE
    /\ _last_media_info = None
    /\ watch_pc = "none"
    /\ sub_watching = {}
    /\ source_last = [s \in {"_mpris", "_waydroid"} |-> None]
    /\ current = None
    /\ now = 0
    /\ media_cache = None
    /\ np = "idle"
    /\ vr = "idle"
    /\ response = NoResponse
    /\ connected_clients = {}
    /\ ws = [c \in Clients |-> "new"]
    /\ bc = [i \in Tasks |-> TaskRecord("free")]
    /\ ready = <<>>
    /\ pruned = {}
    /\ vrchat_last_media_info = None
    /\ vrchat_current = None
    /\ untracked_pc = "none"
    /\ rpc = "none"
    /\ _last_media = None
    /\ dp_media = None
    /\ dp_pc = "none"
    /\ remote = None
    /\ running = FALSE
    /\ closures = 0

(***************************************************************************)
(* lifespan: startup.  get_provider picks the provider by platform; the    *)
(* VRChat provider exists on Windows only.  Any failure leaves None.       *)
(***************************************************************************)
\* the sources HybridLinuxMediaProvider.start_watching starts
Sources(hybrid, has_waydroid) ==
    IF hybrid
    THEN {"_mpris"} \cup (IF has_waydroid THEN {"_waydroid"} ELSE {})
    ELSE {}

LifespanStartup(platforms, waydroids) ==
    /\ phase = "init"
    /\ phase' = "serving"
    /\ \E platform \in platforms, started \in BOOLEAN, w \in waydroids, v \in BOOLEAN :
          /\ IF started
             THEN /\ provider' = IF platform = "Linux"
                                 THEN "HybridLinuxMediaProvider"
                                 ELSE "WindowsMediaProvider"
                  /\ _waydroid' = (platform = "Linux" /\ w)
                  /\ _watching' = TRUE
                  /\ watch_pc' = "created"
                  /\ sub_watching' = Sources(platform = "Linux", platform = "Linux" /\ w)
                  /\ last_call' = Call("start_watching")
             ELSE /\ provider' = "None"
                  /\ UNCHANGED <<_waydroid, _watching, watch_pc, sub_watching,
                                 last_call>>
          /\ vrchat_provider' = (platform = "Windows" /\ v)
    /\ UNCHANGED <<otherVars, aggVars, _last_media_info, source_last, current, now, media_cache, httpVars,
                   wsVars, bcVars>>

\* the wall clock advances
Tick ==
    /\ now + ClockStep <= MaxTime
    /\ now' = now + ClockStep
    /\ UNCHANGED <<otherVars, aggVars, provVars, watchVars, media_cache, httpVars, wsVars, bcVars>>

\* The outcomes of "await provider.get_current_media()": an exception, or the
\* provider's result for constituent results drawn from mset and wset.
ProviderOutcomes(mset, wset) ==
    {Raised} \cup
    (IF provider = "HybridLinuxMediaProvider"
     THEN {HybridGetCurrentMedia(_waydroid, m, w) : m \in mset, w \in wset}
     ELSE mset)

(***************************************************************************)
(* on_media_change: asyncio.create_task(broadcast_media_change(media_info))*)
(***************************************************************************)
FreeTasks == {i \in Tasks : bc[i].pc \in {"free", "done", "crashed"}}

LiveTasks == Tasks \ FreeTasks

on_media_change_front(media_info) ==
    /\ FreeTasks /= {}
    /\ LET i == CHOOSE j \in FreeTasks : \A k \in FreeTasks : j <= k
       IN  /\ bc' = [bc EXCEPT ![i] = [TaskRecord("created") EXCEPT
                                          !.media = media_info, !.older = LiveTasks]]
           /\ ready' = <<i>> \o ready

\* create_task puts the new task behind every callback that is ready to run
on_media_change(media_info) ==
    /\ FreeTasks /= {}
    /\ LET i == CHOOSE j \in FreeTasks : \A k \in FreeTasks : j <= k
       IN  /\ bc' = [bc EXCEPT ![i] = [TaskRecord("created") EXCEPT
                                          !.media = media_info, !.older = LiveTasks]]
           /\ ready' = Append(ready, i)

(***************************************************************************)
(* _watch_loop of the main provider                                        *)
(***************************************************************************)
\* "while self._watching:" at the start of the task and after each sleep
WatchWake ==
    /\ watch_pc \in {"created", "sleep"}
    /\ watch_pc' = IF _watching THEN "fetch" ELSE "ended"
    /\ UNCHANGED <<otherVars, aggVars, provVars, _watching, _last_media_info, current,
                   sub_watching, source_last, now, media_cache, httpVars, wsVars, bcVars>>

\* the awaited get_current_media returns or raises; the loop compares,
\* stores, notifies and goes to sleep
after_fetch_stops_on_error(out) == IF out = Raised THEN "ended" ELSE "sleep"

after_fetch_awaits_sends(out) ==
    IF \E i \in Tasks : bc[i].pc = "sending" THEN "blocked" ELSE "sleep"

\* where the loop is after a fetch: in asyncio.sleep, also after an exception
after_fetch(out) == "sleep"

WatchFetchReturn(mset, wset) ==
    /\ watch_pc = "fetch"
    /\ \E out \in ProviderOutcomes(mset, wset) :
          LET changed  == out /= Raised /\ _has_changed(_last_media_info, out)
              notifies == changed /\ out /= None
          IN  /\ current' = out
              /\ watch_pc' = after_fetch(out)
              /\ _last_media_info' = IF changed THEN out ELSE _last_media_info
              /\ IF notifies
                 THEN on_media_change(out)
                 ELSE UNCHANGED <<bc, ready>>
    /\ UNCHANGED <<otherVars, aggVars, provVars, _watching, sub_watching, source_last, now,
                   media_cache, httpVars, wsVars, pruned>>

(***************************************************************************)
(* start_watching and stop_watching of the main provider.  The hybrid      *)
(* provider's stop_watching clears _watching, is suspended in the stop of  *)
(* its sources and only then cancels its own task; the other providers     *)
(* cancel at once.  A cancelled task takes no further step of its loop.    *)
(***************************************************************************)
WatchTaskLive == watch_pc \in {"created", "fetch", "sleep"}

StartWatching_always ==
    /\ phase \in {"serving", "stopped"}
    /\ provider /= "None"
    /\ last_call' = Call("start_watching")
    /\ _watching' = TRUE
    /\ watch_pc' = "created"
    /\ sub_watching' = Sources(provider = "HybridLinuxMediaProvider", _waydroid)
    /\ UNCHANGED <<phase, provider, vrchat_provider, _waydroid>>
    /\ UNCHANGED <<otherVars, aggVars, _last_media_info, source_last, current, now, media_cache, httpVars,
                   wsVars, bcVars>>

\* start_watching: returns at once when _watching is set
StartWatching ==
    /\ phase \in {"serving", "stopped"}
    /\ provider /= "None"
    /\ last_call' = Call("start_watching")
    /\ IF _watching
       THEN UNCHANGED <<_watching, watch_pc, sub_watching>>
       ELSE /\ _watching' = TRUE
            /\ watch_pc' = "created"
            /\ sub_watching' = Sources(provider = "HybridLinuxMediaProvider", _waydroid)
    /\ UNCHANGED <<phase, provider, vrchat_provider, _waydroid>>
    /\ UNCHANGED <<otherVars, aggVars, _last_media_info, source_last, current, now, media_cache, httpVars,
                   wsVars, bcVars>>

\* a variant of stop_watching that forgets the stored last snapshot
StopWatchingBegin_forgets(phases) ==
    /\ phase \in phases
    /\ IF provider = "None"
       THEN /\ phase' = "stopped"
            /\ UNCHANGED <<_watching, watch_pc, sub_watching, last_call>>
       ELSE /\ _watching' = FALSE
            /\ last_call' = Call("stop_watching")
            /\ sub_watching' = sub_watching \ {"_mpris"}
            /\ watch_pc' = IF provider /= "HybridLinuxMediaProvider" /\ WatchTaskLive
                           THEN "cancelled"
                           ELSE watch_pc
            /\ phase' = IF watch_pc = "none" /\ sub_watching = {}
                        THEN "stopped"
                        ELSE "stopping"
    /\ UNCHANGED <<provider, vrchat_provider, _waydroid>>
    /\ _last_media_info' = None
    /\ UNCHANGED <<otherVars, aggVars, source_last, current, now, media_cache, httpVars,
                   wsVars, bcVars>>

\* stop_watching runs to its first await, or returns when there is no task
\* to wait for; in the lifespan handler it is called only with a provider
StopWatchingBegin(phases) ==
    /\ phase \in phases
    /\ IF provider = "None"
       THEN /\ phase' = "stopped"
            /\ UNCHANGED <<_watching, watch_pc, sub_watching, last_call>>
       ELSE /\ _watching' = FALSE
            /\ last_call' = Call("stop_watching")
            /\ sub_watching' = sub_watching \ {"_mpris"}
            /\ watch_pc' = IF provider /= "HybridLinuxMediaProvider" /\ WatchTaskLive
                           THEN "cancelled"
                           ELSE watch_pc
            /\ phase' = IF watch_pc = "none" /\ sub_watching = {}
                        THEN "stopped"
                        ELSE "stopping"
    /\ UNCHANGED <<provider, vrchat_provider, _waydroid>>
    /\ UNCHANGED <<otherVars, aggVars, _last_media_info, source_last, current, now, media_cache, httpVars,
                   wsVars, bcVars>>

\* start_watching called while stop_watching is suspended in its await.  The
\* flag is clear, so a new loop task is created and _watch_task refers to it.
\* A simple provider's old task has been cancelled; the hybrid provider's old
\* task has not, and it goes on looping because _watching is set again.
StartWatchingDuringStop ==
    /\ phase = "stopping"
    /\ provider /= "None"
    /\ last_call' = Call("start_watching")
    /\ IF _watching
       THEN UNCHANGED <<_watching, watch_pc, sub_watching, untracked_pc>>
       ELSE /\ _watching' = TRUE
            /\ watch_pc' = "created"
            /\ sub_watching' = Sources(provider = "HybridLinuxMediaProvider", _waydroid)
            /\ untracked_pc' = IF WatchTaskLive THEN "running" ELSE untracked_pc
    /\ UNCHANGED <<phase, provider, vrchat_provider, _waydroid>>
    /\ UNCHANGED <<vrchatVars, discVars, aggVars, _last_media_info, source_last, current,
                   now, media_cache, httpVars, wsVars, bcVars>>

\* the awaited tasks have ended and stop_watching returns.  The hybrid
\* provider now cancels the task _watch_task refers to; a simple provider
\* only assigns None to _watch_task, so a task created while it was suspended
\* is no longer referenced, like the task the MPRIS source created meanwhile.
StopWatchingReturn ==
    /\ phase = "stopping"
    /\ phase' = "stopped"
    /\ watch_pc' = "none"
    /\ untracked_pc' = IF provider /= "HybridLinuxMediaProvider" /\ WatchTaskLive
                       THEN "running"
                       ELSE untracked_pc
    /\ sub_watching' = IF _watching THEN sub_watching \ {"_waydroid"} ELSE {}
    /\ UNCHANGED <<last_call, provider, vrchat_provider, _waydroid>>
    /\ UNCHANGED <<vrchatVars, discVars, aggVars, _watching, _last_media_info, source_last,
                   current, now, media_cache, httpVars, wsVars, bcVars>>

\* "while self._watching:" in a task that is no longer referenced
UntrackedWake ==
    /\ untracked_pc = "running"
    /\ ~_watching
    /\ untracked_pc' = "none"
    /\ UNCHANGED <<vrchatVars, discVars, aggVars, provVars, watchVars, now, media_cache,
                   httpVars, wsVars, bcVars>>

(***************************************************************************)
(* The watch loops of the hybrid provider's sources.  start_watching makes *)
(* _on_source_change the change callback of each source; a source's loop   *)
(* compares its own fetch with its own _last_media_info and calls it.      *)
(***************************************************************************)
_on_source_change_forwards(media_info) == on_media_change(media_info)

\* HybridLinuxMediaProvider._on_source_change: "pass"
_on_source_change(media_info) == UNCHANGED <<bc, ready>>

\* one tick of the loop of source s, whose fetch returns one of "results"
SourceTick(s, results) ==
    /\ s \in sub_watching
    /\ \E out \in results :
          LET changed == _has_changed(source_last[s], out)
          IN  /\ source_last' = IF changed THEN [source_last EXCEPT ![s] = out]
                                           ELSE source_last
              /\ IF changed /\ out /= None
                 THEN _on_source_change(out)
                 ELSE UNCHANGED <<bc, ready>>
    /\ UNCHANGED <<otherVars, aggVars, provVars, _watching, _last_media_info, watch_pc, current,
                   sub_watching, now, media_cache, httpVars, wsVars, pruned>>

(***************************************************************************)
(* The watch loop of the VRChat provider.  The lifespan handler starts it  *)
(* without set_on_change_callback, so _notify_change finds no callback.    *)
(***************************************************************************)
_notify_change_always(callback_set, media_info) == on_media_change(media_info)

\* MediaProvider._notify_change: "if self._on_change_callback:"
_notify_change(callback_set, media_info) ==
    IF callback_set THEN on_media_change(media_info) ELSE UNCHANGED <<bc, ready>>

\* one tick of vrchat_provider._watch_loop, whose fetch returns one of
\* "results" or raises; stop_watching of the VRChat provider is called when
\* that of the main provider has returned
VrchatWatchTick(results) ==
    /\ vrchat_provider
    /\ phase \in {"serving", "stopping"}
    /\ \E out \in results \cup {Raised} :
          LET changed == out /= Raised /\ VRChat_has_changed(vrchat_last_media_info, out)
          IN  /\ vrchat_current' = out
              /\ vrchat_last_media_info' = IF changed THEN out
                                                      ELSE vrchat_last_media_info
              /\ IF changed /\ out /= None
                 THEN _notify_change(FALSE, out)
                 ELSE UNCHANGED <<bc, ready>>
    /\ UNCHANGED <<untracked_pc, discVars, aggVars, provVars, watchVars, now,
                   media_cache, httpVars, wsVars, pruned>>

(***************************************************************************)
(* GET /now-playing.  np is the handler's position; the response it        *)
(* returns becomes the value of "response".                                *)
(***************************************************************************)
Response(code, media, last_updated, cached, error, fetched) ==
    [path |-> "/now-playing", status_code |-> code, media |-> media,
     last_updated |-> last_updated, cached |-> cached, error |-> error,
     fetched |-> fetched]

NowPlayingError_as_empty(cached, t) ==
    Response(200, cached.media, cached.last_updated, cached.is_cached, "absent", Raised)

\* the "except Exception" branch of now_playing, cached being the result of
\* get_cached_response() and t the time
NowPlayingError(cached, t) ==
    IF cached.is_cached
    THEN Response(200, cached.media, cached.last_updated, TRUE, "absent", Raised)
    ELSE Response(500, None, t, FALSE, "str(e)", Raised)

ProviderUnavailable_as_empty(t) ==
    Response(200, None, t, FALSE, "absent", NoResponse)

\* the answer of now_playing when provider is None
ProviderUnavailable(t) ==
    Response(503, None, t, FALSE, "Media provider not available", NoResponse)

NowPlayingBegin ==
    /\ phase = "serving"
    /\ np = "idle"
    /\ IF provider = "None"
       THEN /\ response' = ProviderUnavailable(now)
            /\ UNCHANGED np
       ELSE /\ np' = "fetching"
            /\ UNCHANGED response
    /\ UNCHANGED <<otherVars, aggVars, provVars, watchVars, now, media_cache, vr, wsVars, bcVars>>

\* "await provider.get_current_media()" returns or raises
NowPlayingFetchReturn(mset, wset) ==
    /\ np = "fetching"
    /\ np' = "idle"
    /\ \E media \in ProviderOutcomes(mset, wset) :
          LET cached == get_cached_response(media_cache, now)
          IN  IF media = Raised
              THEN /\ response' = NowPlayingError(cached, now)
                   /\ UNCHANGED <<media_cache, bc>>
              ELSE IF media /= None
              THEN /\ media_cache' = update_cache(media_cache, media, now)
                   /\ bc' = Superseded(bc)
                   /\ response' = Response(200, to_dict(media), now, FALSE, "absent",
                                           media)
              ELSE /\ response' = Response(200, cached.media, cached.last_updated,
                                           cached.is_cached, "absent", media)
                   /\ UNCHANGED <<media_cache, bc>>
    /\ UNCHANGED <<otherVars, aggVars, provVars, watchVars, now, vr, wsVars, ready, pruned>>

(***************************************************************************)
(* GET /vrchat/now-playing                                                 *)
(***************************************************************************)
VrchatResponse(media, last_updated, source, fetched) ==
    [path |-> "/vrchat/now-playing", media |-> media, last_updated |-> last_updated,
     source |-> source, fetched |-> fetched]

\* after the VRChat provider gave nothing: the main provider, or "none"
VrchatFallback ==
    IF provider /= "None"
    THEN /\ vr' = "fetching"
         /\ UNCHANGED response
    ELSE /\ vr' = "idle"
         /\ response' = VrchatResponse(None, now, "none", NoResponse)

VrchatBegin ==
    /\ phase = "serving"
    /\ vr = "idle"
    /\ IF vrchat_provider
       THEN /\ vr' = "fetching_vrchat"
            /\ UNCHANGED response
       ELSE VrchatFallback
    /\ UNCHANGED <<otherVars, aggVars, provVars, watchVars, now, media_cache, np, wsVars, bcVars>>

\* "await vrchat_provider.get_current_media()" returns or raises
VrchatProviderReturn(vset) ==
    /\ vr = "fetching_vrchat"
    /\ \E media \in vset \cup {Raised} :
          IF media /= Raised /\ media /= None
          THEN /\ vr' = "idle"
               /\ response' = VrchatResponse(to_dict(media), now, "vrchat_log", media)
          ELSE VrchatFallback
    /\ UNCHANGED <<otherVars, aggVars, provVars, watchVars, now, media_cache, np, wsVars, bcVars>>

\* "await provider.get_current_media()" of the fallback returns or raises
VrchatFallbackReturn(mset, wset) ==
    /\ vr = "fetching"
    /\ vr' = "idle"
    /\ \E media \in ProviderOutcomes(mset, wset) :
          LET cached == get_cached_response(media_cache, now)
          IN  IF media = Raised
              THEN /\ response' = VrchatResponse(None, now, "none", media)
                   /\ UNCHANGED <<media_cache, bc>>
              ELSE IF media /= None
              THEN /\ media_cache' = update_cache(media_cache, media, now)
                   /\ bc' = Superseded(bc)
                   /\ response' = VrchatResponse(to_dict(media), now, "fallback", media)
              ELSE /\ response' = VrchatResponse(
                                      cached.media, cached.last_updated,
                                      IF cached.is_cached THEN "fallback_cached"
                                                          ELSE "fallback",
                                      media)
                   /\ UNCHANGED <<media_cache, bc>>
    /\ UNCHANGED <<otherVars, aggVars, provVars, watchVars, now, np, wsVars, ready, pruned>>

(***************************************************************************)
(* connected_clients and the broadcasts that iterate it.  A task suspended *)
(* in "await client.send_text" holds a set iterator: si_used is the size   *)
(* of the set when the loop began, todo the elements its next() calls will *)
(* still yield.  While the size differs from si_used the next call raises  *)
(* RuntimeError.  When the set was changed and has its old size again, the *)
(* iterator goes on over the changed table, which an add may have rebuilt: *)
(* it may yield any of the elements now in the set.                        *)
(***************************************************************************)
IterAfterChange(b, cc2) ==
    LET choices(i) ==
            IF b[i].pc = "sending" /\ cc2 /= connected_clients
            THEN IF Cardinality(cc2) /= b[i].si_used
                 THEN {[b[i] EXCEPT !.todo = {}]}
                 ELSE {[b[i] EXCEPT !.todo = t] : t \in SUBSET cc2}
            ELSE {b[i]}
    IN  {f \in [Tasks -> UNION {choices(i) : i \in Tasks}] :
            \A i \in Tasks : f[i] \in choices(i)}

Discard_some(c) ==
    LET d == IF c \in connected_clients \/ connected_clients = {}
             THEN c
             ELSE CHOOSE x \in connected_clients : TRUE
    IN  /\ connected_clients' = connected_clients \ {d}
        /\ bc' \in IterAfterChange(bc, connected_clients \ {d})

\* connected_clients.discard(websocket) in the handler's finally clause
Discard(c) ==
    /\ connected_clients' = connected_clients \ {c}
    /\ bc' \in IterAfterChange(bc, connected_clients \ {c})

(***************************************************************************)
(* websocket_endpoint, one handler per client                              *)
(***************************************************************************)
ConnectedEvent(media, cached, fetched) ==
    [path |-> "/ws", type |-> "connected", media |-> media,
     last_updated |-> now, cached |-> cached, fetched |-> fetched]

\* accept() returns; the client is registered and the live fetch begins
\* (without a provider the handler goes on to send the connected event)
WsConnect(c) ==
    /\ phase = "serving"
    /\ ws[c] = "new"
    /\ \A d \in Clients : d < c => ws[d] /= "new"
    /\ connected_clients' = connected_clients \cup {c}
    /\ bc' \in IterAfterChange(bc, connected_clients \cup {c})
    /\ LET cached == get_cached_response(media_cache, now)
       IN  IF provider = "None"
           THEN /\ ws' = [ws EXCEPT ![c] = "sending_connected"]
                /\ response' = ConnectedEvent(cached.media, cached.is_cached,
                                              NoResponse)
           ELSE /\ ws' = [ws EXCEPT ![c] = "fetching"]
                /\ UNCHANGED response
    /\ UNCHANGED <<otherVars, aggVars, provVars, watchVars, now, media_cache, np, vr, ready,
                   pruned>>

\* "await provider.get_current_media()" returns or raises; the connected
\* event is built and its send begins
WsFetchReturn(c, mset, wset) ==
    /\ ws[c] = "fetching"
    /\ \E media \in ProviderOutcomes(mset, wset) :
          LET cached == get_cached_response(media_cache, now)
          IN  IF media = Raised
              THEN /\ ws' = [ws EXCEPT ![c] = "closed"]
                   /\ Discard(c)
                   /\ UNCHANGED <<media_cache, response>>
              ELSE IF media /= None
              THEN /\ media_cache' = update_cache(media_cache, media, now)
                   /\ bc' = Superseded(bc)
                   /\ ws' = [ws EXCEPT ![c] = "sending_connected"]
                   /\ response' = ConnectedEvent(to_dict(media), FALSE, media)
                   /\ UNCHANGED connected_clients
              ELSE /\ ws' = [ws EXCEPT ![c] = "sending_connected"]
                   /\ response' = ConnectedEvent(cached.media, cached.is_cached,
                                                 media)
                   /\ UNCHANGED <<media_cache, connected_clients, bc>>
    /\ UNCHANGED <<otherVars, aggVars, provVars, watchVars, now, np, vr, ready, pruned>>

WsSendReturn_keeps_handle(c) ==
    /\ ws[c] \in {"sending_connected", "sending_pong", "sending_ping"}
    /\ \E ok \in BOOLEAN :
          ws' = [ws EXCEPT ![c] = IF ok THEN "receiving" ELSE "closed"]
    /\ UNCHANGED <<otherVars, aggVars, provVars, watchVars, now, media_cache, np, vr, response,
                   connected_clients, bcVars>>

\* the send of the connected event, of "pong" or of the server's ping returns
\* or raises; a raise ends the handler, whose finally clause unregisters
WsSendReturn(c) ==
    /\ ws[c] \in {"sending_connected", "sending_pong", "sending_ping"}
    /\ \E ok \in BOOLEAN :
          IF ok
          THEN /\ ws' = [ws EXCEPT ![c] = "receiving"]
               /\ UNCHANGED <<connected_clients, bc>>
          ELSE /\ ws' = [ws EXCEPT ![c] = "closed"]
               /\ Discard(c)
    /\ UNCHANGED <<otherVars, aggVars, provVars, watchVars, now, media_cache, np, vr, response,
                   ready, pruned>>

\* receive_text raises WebSocketDisconnect
WsDisconnect(c) ==
    /\ ws[c] = "receiving"
    /\ ws' = [ws EXCEPT ![c] = "closed"]
    /\ Discard(c)
    /\ UNCHANGED <<otherVars, aggVars, provVars, watchVars, now, media_cache, np, vr, response,
                   ready, pruned>>

\* the keepalive messages: "pong" and {"type": "ping"}
KeepaliveMessage(type) == [path |-> "/ws", type |-> type]

\* receive_text returns "ping", or wait_for times out after 30 seconds: the
\* handler builds its answer or its own ping and begins to send it
WsReceive(c) ==
    /\ ws[c] = "receiving"
    /\ \E got \in {"ping", "timeout"} :
          /\ ws' = [ws EXCEPT ![c] = IF got = "ping" THEN "sending_pong"
                                                     ELSE "sending_ping"]
          /\ response' = KeepaliveMessage(IF got = "ping" THEN "pong" ELSE "ping")
    /\ UNCHANGED <<otherVars, aggVars, provVars, watchVars, now, media_cache, np, vr,
                   connected_clients, bcVars>>

(***************************************************************************)
(* broadcast_media_change, one task per change                             *)
(***************************************************************************)
\* The clients the set iterator may yield next out of those it has left. The
\* order of a set is not specified, but two iterations of a set that was not
\* changed yield the same order: "ordered" takes the clients' numbers for
\* their places in the table, and without it any order is allowed.
NextClients(left, ordered) ==
    IF ordered THEN {c \in left : \A d \in left : c <= d} ELSE left

\* The task runs from its start to its first await: it returns when nobody
\* is connected, else writes the cache, serialises the message and begins
\* the first send.
BroadcastStart(ordered) ==
    /\ ready /= <<>>
    /\ ready' = Tail(ready)
    /\ LET i == Head(ready)
       IN  IF connected_clients = {}
           THEN /\ bc' = Ended(bc, i, "done")
                /\ UNCHANGED media_cache
           ELSE /\ media_cache' = update_cache(media_cache, bc[i].media, now)
                /\ \E c \in NextClients(connected_clients, ordered) :
                      bc' = [k \in Tasks |->
                               IF k = i
                               THEN [pc |-> "sending", media |-> bc[i].media,
                                     si_used |-> Cardinality(connected_clients),
                                     todo |-> connected_clients \ {c}, cur |-> c,
                                     disconnected |-> {}, sent |-> {},
                                     older |-> bc[i].older,
                                     overtaken |-> bc[i].overtaken,
                                     stale |-> FALSE]
                               ELSE [bc[k] EXCEPT !.stale = FALSE]]
    /\ UNCHANGED <<otherVars, aggVars, provVars, watchVars, now, httpVars, wsVars, pruned>>

\* connected_clients.difference_update(disconnected)
difference_update_noop(cc, disconnected) == cc

difference_update(cc, disconnected) == cc \ disconnected

\* "await client.send_text(message)" returns or raises; then the loop asks
\* the iterator for the next client, and after the last one removes the
\* disconnected clients.  A next() on a set whose size has changed raises
\* RuntimeError, which ends the task.
BroadcastSendReturn(i, ordered) ==
    /\ bc[i].pc = "sending"
    /\ \E ok \in BOOLEAN :
          LET r == bc[i]
              sent2 == IF ok THEN r.sent \cup {r.cur} ELSE r.sent
              disc2 == IF ok THEN r.disconnected ELSE r.disconnected \cup {r.cur}
              cc2 == difference_update(connected_clients, disc2)
              b == Overtake(bc, i, ok)
          IN  IF Cardinality(connected_clients) /= r.si_used
              THEN /\ bc' = Ended(b, i, "crashed")
                   /\ UNCHANGED <<connected_clients, pruned>>
              ELSE IF r.todo = {}
              THEN /\ connected_clients' = cc2
                   /\ pruned' = pruned \cup (connected_clients \ cc2)
                   /\ bc' \in IterAfterChange(
                                 [Ended(b, i, "done") EXCEPT
                                    ![i].disconnected = disc2],
                                 cc2)
              ELSE /\ \E c \in NextClients(r.todo, ordered) :
                         bc' = [b EXCEPT ![i] =
                                  [r EXCEPT !.sent = sent2, !.disconnected = disc2,
                                            !.cur = c, !.todo = r.todo \ {c}]]
                   /\ UNCHANGED <<connected_clients, pruned>>
    /\ UNCHANGED <<otherVars, aggVars, provVars, watchVars, now, media_cache, httpVars, ws, ready>>

AggIdle ==
    /\ agg_mpris = None
    /\ agg_waydroid = None
    /\ agg_result = Pending

\* the server and the presence process before they start, no fetch running
IdleInit == ServerInit /\ AggIdle

(***************************************************************************)
(* One aggregate fetch over every pair of constituent results.             *)
(***************************************************************************)
AggInit ==
    /\ ServerInit
    /\ agg_mpris \in MprisResults
    /\ agg_waydroid \in WayDroidResults
    /\ agg_result = Pending

AggFetch ==
    /\ agg_result = Pending
    /\ \E w \in BOOLEAN :
          agg_result' = [has_waydroid |-> w,
                         media |-> HybridGetCurrentMedia(w, agg_mpris, agg_waydroid)]
    /\ UNCHANGED <<otherVars, agg_mpris, agg_waydroid, provVars, watchVars, now, media_cache,
                   httpVars, wsVars, bcVars>>

AggNext == AggFetch

SpecAgg == AggInit /\ [][AggNext]_vars

(***************************************************************************)
(* The aggregate fetch when the constituents' own work fails: each         *)
(* constituent's get_current_media runs its D-Bus calls or its dumpsys     *)
(* command inside "try ... except Exception: return None".  The aggregate  *)
(* fetch has no handler of its own: an exception that left a constituent   *)
(* would leave the aggregate fetch too.                                    *)
(***************************************************************************)
LinuxGetCurrentMedia(raw) == IF raw = Raised THEN None ELSE raw

WayDroidGetCurrentMedia_reraises(raw) == raw

WayDroidGetCurrentMedia(raw) == IF raw = Raised THEN None ELSE raw

\* mpris_raw and waydroid_raw are what the constituents' work produces: a
\* result or an exception
HybridFetch(has_waydroid, mpris_raw, waydroid_raw) ==
    LET mpris_media == LinuxGetCurrentMedia(mpris_raw)
        waydroid_media == IF has_waydroid
                          THEN WayDroidGetCurrentMedia(waydroid_raw)
                          ELSE None
    IN  IF mpris_media = Raised \/ waydroid_media = Raised
        THEN Raised
        ELSE HybridResolve(mpris_media, waydroid_media)

(***************************************************************************)
(* The watch loop of the provider, polling players that change one field   *)
(* at a time; nobody is connected, so every broadcast task returns at once.*)
(***************************************************************************)
SongA ==
    [source_app |-> "Spotify", title |-> "Song A", artist |-> "Artist X",
     album |-> "Album", status |-> "playing"]

SongW ==
    [source_app |-> "Spotify (WayDroid)", title |-> "Song A", artist |-> "Artist X",
     album |-> "Album", status |-> "paused"]

Differences(m, n) ==
    Cardinality({f \in {"source_app", "title", "artist", "album", "status"} :
                    m[f] /= n[f]})

PollMpris ==
    {None} \cup {m \in MprisResults \ {None} : Differences(m, SongA) <= 1}

PollWayDroid == {None, SongW, [SongW EXCEPT !.album = ""]}

WatchInit == ServerInit /\ AggIdle

WatchNext ==
    \/ LifespanStartup({"Linux", "Windows"}, BOOLEAN)
    \/ WatchWake
    \/ WatchFetchReturn(PollMpris, PollWayDroid)
    \/ BroadcastStart(FALSE)

SpecWatch == WatchInit /\ [][WatchNext]_vars

(***************************************************************************)
(* One aggregate fetch over constituents whose work may fail.              *)
(***************************************************************************)
FailingWayDroid == {Raised, None, SongW}

AggFailInit ==
    /\ ServerInit
    /\ agg_mpris \in MprisResults \cup {Raised}
    /\ agg_waydroid \in FailingWayDroid
    /\ agg_result = Pending

AggFailFetch ==
    /\ agg_result = Pending
    /\ \E w \in BOOLEAN :
          agg_result' = [has_waydroid |-> w,
                         media |-> HybridFetch(w, agg_mpris, agg_waydroid)]
    /\ UNCHANGED <<otherVars, agg_mpris, agg_waydroid, provVars, watchVars, now, media_cache,
                   httpVars, wsVars, bcVars>>

AggFailNext == AggFailFetch

SpecAggFail == AggFailInit /\ [][AggFailNext]_vars

(***************************************************************************)
(* The query paths and the cache under a clock that advances: GET          *)
(* /now-playing, GET /vrchat/now-playing and the connect of WebSocket      *)
(* clients, the provider returning one of two songs, nothing or an error.  *)
(***************************************************************************)
SongB == [SongA EXCEPT !.title = "", !.status = "paused"]

QueryMpris == {None, SongA, SongB}

QueryWayDroid == {None, SongW}

QueryVrchat ==
    {None,
     [source_app |-> "VRChat", title |-> "Song A", artist |-> "", album |-> "",
      status |-> "playing"]}

\* number of WebSocket clients that connect while the queries run
MaxQueryClients == 1

QueryInit == ServerInit /\ AggIdle

QueryNext ==
    \/ LifespanStartup({"Linux", "Windows"}, BOOLEAN)
    \/ Tick
    \/ NowPlayingBegin
    \/ NowPlayingFetchReturn(QueryMpris, QueryWayDroid)
    \/ VrchatBegin
    \/ VrchatProviderReturn(QueryVrchat)
    \/ VrchatFallbackReturn(QueryMpris, QueryWayDroid)
    \/ \E c \in 1 .. MaxQueryClients :
          \/ WsConnect(c)
          \/ WsFetchReturn(c, QueryMpris, QueryWayDroid)
          \/ WsSendReturn(c)
          \/ WsDisconnect(c)

SpecQuery == QueryInit /\ [][QueryNext]_vars

(***************************************************************************)
(* One song, then silence: the provider returns Song A until a query has   *)
(* cached it and nothing from then on, while the clock advances and        *)
(* /now-playing is queried again and again.                                *)
(***************************************************************************)
SilentOnceCached == IF media_cache = None THEN {None, SongA} ELSE {None}

EndToEndInit == ServerInit /\ AggIdle

EndToEndNext ==
    \/ LifespanStartup({"Linux", "Windows"}, BOOLEAN)
    \/ Tick
    \/ NowPlayingBegin
    \/ NowPlayingFetchReturn(SilentOnceCached, {None})

SpecEndToEnd == EndToEndInit /\ [][EndToEndNext]_vars

(***************************************************************************)
(* The broadcasts: the watch loop sees the player change between two songs *)
(* while WebSocket clients connect and disconnect and sends succeed or     *)
(* fail.                                                                   *)
(***************************************************************************)
BroadcastInit == ServerInit /\ AggIdle

BroadcastNext ==
    \/ LifespanStartup({"Linux"}, {FALSE})
    \/ WatchWake
    \/ WatchFetchReturn({SongA, SongB}, {None})
    \/ BroadcastStart(FALSE)
    \/ \E i \in Tasks : BroadcastSendReturn(i, FALSE)
    \/ \E c \in Clients :
          \/ WsConnect(c)
          \/ WsFetchReturn(c, {None}, {None})
          \/ WsSendReturn(c)
          \/ WsDisconnect(c)

SpecBroadcast == BroadcastInit /\ [][BroadcastNext]_vars

(***************************************************************************)
(* Every writer of the cache under a clock that advances: the queries, the *)
(* connect of a WebSocket client and the broadcasts of the watch loop.     *)
(***************************************************************************)
WritersInit == ServerInit /\ AggIdle

WritersNext ==
    \/ LifespanStartup({"Linux"}, {FALSE})
    \/ Tick
    \/ NowPlayingBegin
    \/ NowPlayingFetchReturn({None, SongA}, {None})
    \/ VrchatBegin
    \/ VrchatFallbackReturn({SongA}, {None})
    \/ WatchWake
    \/ WatchFetchReturn({SongB}, {None})
    \/ BroadcastStart(FALSE)
    \/ \E i \in Tasks : BroadcastSendReturn(i, FALSE)
    \/ \E c \in 1 .. MaxQueryClients :
          \/ WsConnect(c)
          \/ WsFetchReturn(c, {SongA}, {None})
          \/ WsSendReturn(c)
          \/ WsDisconnect(c)

SpecWriters == WritersInit /\ [][WritersNext]_vars

(***************************************************************************)
(* Keepalive: clients that connect and then stay silent or send "ping",    *)
(* none of them closing its connection, while nothing is published.        *)
(***************************************************************************)
KeepaliveInit == ServerInit /\ AggIdle

KeepaliveNext ==
    \/ LifespanStartup({"Linux"}, {FALSE})
    \/ \E c \in Clients :
          \/ WsConnect(c)
          \/ WsFetchReturn(c, {None, SongA}, {None})
          \/ WsSendReturn(c)
          \/ WsReceive(c)

SpecKeepalive == KeepaliveInit /\ [][KeepaliveNext]_vars

(***************************************************************************)
(* Consumers that never take their message: every send of a broadcast      *)
(* stays suspended for ever, while the watch loop polls and clients        *)
(* connect and disconnect.                                                 *)
(***************************************************************************)
StalledInit == ServerInit /\ AggIdle

StalledNext ==
    \/ LifespanStartup({"Linux"}, {FALSE})
    \/ WatchWake
    \/ WatchFetchReturn({SongA, SongB}, {None})
    \/ BroadcastStart(FALSE)
    \/ \E c \in Clients :
          \/ WsConnect(c)
          \/ WsFetchReturn(c, {None}, {None})
          \/ WsSendReturn(c)
          \/ WsDisconnect(c)

SpecStalled == StalledInit /\ [][StalledNext]_vars

(***************************************************************************)
(* The hybrid provider and its sources: the loops of MPRIS and WayDroid    *)
(* poll beside the provider's own loop; nobody is connected.               *)
(***************************************************************************)
SourcesInit == ServerInit /\ AggIdle

SourcesNext ==
    \/ LifespanStartup({"Linux"}, BOOLEAN)
    \/ WatchWake
    \/ WatchFetchReturn(QueryMpris, QueryWayDroid)
    \/ SourceTick("_mpris", QueryMpris)
    \/ SourceTick("_waydroid", QueryWayDroid)
    \/ BroadcastStart(FALSE)

SpecSources == SourcesInit /\ [][SourcesNext]_vars

(***************************************************************************)
(* Overlapping broadcasts that iterate connected_clients in one order.     *)
(***************************************************************************)
FifoInit == ServerInit /\ AggIdle

FifoNext ==
    \/ LifespanStartup({"Linux"}, {FALSE})
    \/ WatchWake
    \/ WatchFetchReturn({SongA, SongB}, {None})
    \/ BroadcastStart(TRUE)
    \/ \E i \in Tasks : BroadcastSendReturn(i, TRUE)
    \/ \E c \in Clients :
          \/ WsConnect(c)
          \/ WsFetchReturn(c, {None}, {None})
          \/ WsSendReturn(c)
          \/ WsDisconnect(c)

SpecFifo == FifoInit /\ [][FifoNext]_vars

(***************************************************************************)
(* Shutdown: the lifespan handler stops the provider while the watch loop  *)
(* polls, broadcast tasks are pending or suspended and a client is         *)
(* connected.                                                              *)
(***************************************************************************)
ShutdownInit == ServerInit /\ AggIdle

ShutdownNext ==
    \/ LifespanStartup({"Linux", "Windows"}, {FALSE})
    \/ WatchWake
    \/ WatchFetchReturn({SongA, SongB}, {None})
    \/ BroadcastStart(FALSE)
    \/ \E i \in Tasks : BroadcastSendReturn(i, FALSE)
    \/ \E c \in 1 .. MaxQueryClients :
          \/ WsConnect(c)
          \/ WsFetchReturn(c, {None}, {None})
          \/ WsSendReturn(c)
          \/ WsDisconnect(c)
    \/ StopWatchingBegin({"serving"})
    \/ StopWatchingReturn

SpecShutdown == ShutdownInit /\ [][ShutdownNext]_vars

(***************************************************************************)
(* start_watching and stop_watching called again and again, in any order,  *)
(* on a provider whose watch loop polls.                                   *)
(***************************************************************************)
StartStopInit == ServerInit /\ AggIdle

StartStopNext ==
    \/ LifespanStartup({"Linux", "Windows"}, BOOLEAN)
    \/ StartWatching
    \/ StopWatchingBegin({"serving", "stopped"})
    \/ StopWatchingReturn
    \/ WatchWake
    \/ WatchFetchReturn({SongA, SongB}, {None})
    \/ BroadcastStart(FALSE)

SpecStartStop == StartStopInit /\ [][StartStopNext]_vars

(***************************************************************************)
(* Properties                                                              *)
(***************************************************************************)
\* the comparison tuple of a snapshot
ChangeTuple(m) == <<m.title, m.artist, m.status, m.source_app>>

\* the tick of the watch loop: its fetch returns and it goes to sleep
IsWatchTick == watch_pc = "fetch" /\ watch_pc' = "sleep"

\* the change callback is invoked: on_media_change creates a broadcast task
CallbackInvoked == Len(ready') > Len(ready)

\* C1: a tick of the watch loop invokes the change callback at most once, and
\* only when the fetched snapshot is positive and its (title, artist, status,
\* source_app) differs from that of the stored last snapshot (or none was
\* stored); a tick that fetches the stored tuple again invokes nothing, and
\* nothing but a tick invokes the callback.
C1_NotifyOncePerChange ==
    [][/\ CallbackInvoked => IsWatchTick
       /\ IsWatchTick =>
            /\ Len(ready') <= Len(ready) + 1
            /\ CallbackInvoked =>
                 /\ current' \notin {None, Raised}
                 /\ bc'[ready'[Len(ready')]].media = current'
                 /\ \/ _last_media_info = None
                    \/ ChangeTuple(current') /= ChangeTuple(_last_media_info)
            /\ ( /\ current' \notin {None, Raised}
                 /\ _last_media_info /= None
                 /\ ChangeTuple(current') = ChangeTuple(_last_media_info) )
               => ~CallbackInvoked]_vars

\* C1 witness: after a tick had notified, a later tick fetched the stored
\* tuple again (with another album) and invoked nothing: no task is left.
C1_Witness ==
    /\ watch_pc = "sleep"
    /\ current \notin {None, Raised}
    /\ _last_media_info /= None
    /\ current /= _last_media_info
    /\ ChangeTuple(current) = ChangeTuple(_last_media_info)
    /\ ready = <<>>
    /\ \E i \in Tasks : bc[i].pc = "done"

\* the priority the specification gives each status
SpecPriority ==
    [playing |-> 3, paused |-> 2, stopped |-> 1, unknown |-> 0]

\* the second constituent's result: none when the provider has no WayDroid
AggSecond == IF agg_result.has_waydroid THEN agg_waydroid ELSE None

\* C2: the aggregate fetch follows the resolution rule: both none gives none,
\* exactly one none gives the other, otherwise the snapshot whose status has
\* the strictly higher priority is returned.
C2_ResolutionRule ==
    agg_result /= Pending =>
        LET a == agg_mpris
            b == AggSecond
            r == agg_result.media
        IN  /\ (a = None /\ b = None) => r = None
            /\ (a = None /\ b /= None) => r = b
            /\ (a /= None /\ b = None) => r = a
            /\ (a /= None /\ b /= None) =>
                 /\ SpecPriority[a.status] > SpecPriority[b.status] => r = a
                 /\ SpecPriority[b.status] > SpecPriority[a.status] => r = b

\* C2 witness: a paused WayDroid snapshot lost against a playing MPRIS one.
C2_Witness ==
    /\ agg_result /= Pending
    /\ agg_mpris /= None
    /\ AggSecond /= None
    /\ agg_mpris.status = "playing"
    /\ AggSecond.status = "paused"
    /\ agg_result.media = agg_mpris

\* C3: when both constituents return a snapshot of the same status, the
\* WayDroid snapshot is returned, whatever the other fields of the two are.
C3_TieGoesToWayDroid ==
    (/\ agg_result /= Pending
     /\ agg_mpris /= None
     /\ AggSecond /= None
     /\ agg_mpris.status = AggSecond.status)
    => agg_result.media = agg_waydroid

\* C3 witness: a tie on "unknown" between snapshots that differ in title,
\* artist, album and source_app, resolved for WayDroid.
C3_Witness ==
    /\ agg_result /= Pending
    /\ agg_mpris /= None
    /\ AggSecond /= None
    /\ agg_mpris.status = "unknown"
    /\ AggSecond.status = "unknown"
    /\ agg_mpris.title /= agg_waydroid.title
    /\ agg_mpris.artist /= agg_waydroid.artist
    /\ agg_mpris.album /= agg_waydroid.album
    /\ agg_result.media = agg_waydroid

\* the cache entry is within its time to live
CacheFresh ==
    /\ media_cache /= None
    /\ now - media_cache.timestamp < CACHE_TTL_SECONDS

\* the cached snapshot as a consumer is to see it: its fields, the status
\* replaced by "cached"
CachedSnapshot ==
    [source_app |-> media_cache.media.source_app, title |-> media_cache.media.title,
     artist |-> media_cache.media.artist, album |-> media_cache.media.album,
     status |-> "cached", thumbnail |-> None]

\* the steps in which a handler builds its response or connected event
NowPlayingReturns == np = "fetching" /\ np' = "idle"

VrchatFallbackReturns == vr = "fetching" /\ vr' = "idle"

WsBuildsEvent(c) == ws[c] \in {"new", "fetching"} /\ ws'[c] = "sending_connected"

\* whether a response says that its media comes from the cache
SaysCached(r) ==
    IF r.path = "/vrchat/now-playing" THEN r.source = "fallback_cached" ELSE r.cached

\* C4: a handler that looks the cache up (its live fetch gave none, or raised
\* in /now-playing, or there is no provider) answers with the cached snapshot,
\* status "cached", and says so exactly when an entry exists and is younger
\* than 30 s; otherwise its media is absent and it does not say cached.  On
\* every path a response that says cached was built from an entry younger
\* than 30 s.
C4_CacheLookupWithinTtl ==
    [][(\/ NowPlayingReturns
        \/ VrchatFallbackReturns
        \/ \E c \in Clients : WsBuildsEvent(c))
       => /\ SaysCached(response') => CacheFresh
          /\ ( \/ response'.fetched \in {None, NoResponse}
               \/ response'.fetched = Raised /\ response'.path = "/now-playing" )
             => IF CacheFresh
                THEN response'.media = CachedSnapshot /\ SaysCached(response')
                ELSE response'.media = None /\ ~SaysCached(response')]_vars

\* C4 witness: a query whose fetch gave none found the entry exactly 30 s old
\* and answered with no media, not cached.
C4_Witness ==
    /\ response /= NoResponse
    /\ response.path = "/now-playing"
    /\ response.fetched = None
    /\ response.media = None
    /\ ~response.cached
    /\ media_cache /= None
    /\ response.last_updated - media_cache.timestamp = CACHE_TTL_SECONDS

\* C5: when the live fetch of /now-playing returns a snapshot, the response
\* carries that snapshot's fields with cached = false, and the cache then
\* holds that snapshot with the time of this step.
C5_LiveFetchCachedAndReturned ==
    [][(NowPlayingReturns /\ response'.fetched \notin {None, Raised})
       => /\ response'.status_code = 200
          /\ response'.cached = FALSE
          /\ response'.media.title = response'.fetched.title
          /\ response'.media.artist = response'.fetched.artist
          /\ response'.media.album = response'.fetched.album
          /\ response'.media.source_app = response'.fetched.source_app
          /\ response'.media.status = response'.fetched.status
          /\ media_cache' = [media |-> response'.fetched, timestamp |-> now]]_vars

\* C5 witness: a live snapshot was returned at a later time than that of an
\* older entry, and the cache holds it with the later time.
C5_Witness ==
    /\ response /= NoResponse
    /\ response.path = "/now-playing"
    /\ response.fetched = SongB
    /\ ~response.cached
    /\ media_cache = [media |-> SongB, timestamp |-> 2 * ClockStep]
    /\ now = 2 * ClockStep

\* C6: when the live fetch of /now-playing returns none, the response is the
\* cached snapshot with cached = true if the entry is younger than 30 s, and
\* else media null with cached = false; the cache is not changed.
C6_NoneFallsBackToCache ==
    [][(NowPlayingReturns /\ response'.fetched = None)
       => /\ media_cache' = media_cache
          /\ response'.status_code = 200
          /\ response'.error = "absent"
          /\ IF CacheFresh
             THEN /\ response'.cached = TRUE
                  /\ response'.media.title = media_cache.media.title
                  /\ response'.media.artist = media_cache.media.artist
                  /\ response'.media.album = media_cache.media.album
                  /\ response'.media.source_app = media_cache.media.source_app
             ELSE /\ response'.cached = FALSE
                  /\ response'.media = None]_vars

\* C6 witness: a fetch gave none 15 s after Song A was cached and the
\* response carries Song A, cached.
C6_Witness ==
    /\ response /= NoResponse
    /\ response.path = "/now-playing"
    /\ response.fetched = None
    /\ response.cached
    /\ response.media.title = "Song A"
    /\ media_cache /= None
    /\ media_cache.media = SongA
    /\ now - media_cache.timestamp = ClockStep

\* C7: when the live fetch of /now-playing raises, the response is the cached
\* snapshot with cached = true if the entry is younger than 30 s; else it has
\* no media, cached = false, status 500 and an error, which tells it from the
\* answer to a fetch of none without a fresh entry (status 200, no error).
C7_ErrorFallsBackOrSignals ==
    [][NowPlayingReturns
       => /\ response'.fetched = Raised =>
               /\ media_cache' = media_cache
               /\ IF CacheFresh
                  THEN /\ response'.cached = TRUE
                       /\ response'.status_code = 200
                       /\ response'.media = CachedSnapshot
                  ELSE /\ response'.cached = FALSE
                       /\ response'.media = None
                       /\ response'.status_code = 500
                       /\ response'.error /= "absent"
          /\ (response'.fetched = None /\ ~CacheFresh) =>
               /\ response'.status_code = 200
               /\ response'.error = "absent"]_vars

\* C7 witness: a fetch raised while the only entry was 45 s old; the answer
\* is status 500 with an error.
C7_Witness ==
    /\ response /= NoResponse
    /\ response.path = "/now-playing"
    /\ response.fetched = Raised
    /\ response.status_code = 500
    /\ response.error /= "absent"
    /\ media_cache /= None
    /\ response.last_updated - media_cache.timestamp = 3 * ClockStep

\* C8: once Song A is cached at t0 and the provider returns nothing more, the
\* entry stays as it is through every later step, queries included, and each
\* query answers Song A with cached = true while now - t0 < 30 s and no media
\* from then on.
C8_CachedThroughSilenceOnly ==
    [][media_cache /= None
       => /\ media_cache' = media_cache
          /\ media_cache.media = SongA
          /\ NowPlayingReturns =>
               IF now - media_cache.timestamp < CACHE_TTL_SECONDS
               THEN /\ response'.cached = TRUE
                    /\ response'.media = [to_dict(SongA) EXCEPT !.status = "cached"]
                    /\ response'.last_updated = media_cache.timestamp
               ELSE /\ response'.cached = FALSE
                    /\ response'.media = None]_vars

\* C8 witness: Song A was served from the cache, and 30 s after it was cached
\* a query got no media while the entry still carries the first time.
C8_Witness ==
    /\ response /= NoResponse
    /\ response.fetched = None
    /\ response.media = None
    /\ ~response.cached
    /\ media_cache = [media |-> SongA, timestamp |-> ClockStep]
    /\ now = ClockStep + CACHE_TTL_SECONDS

(***************************************************************************)
(* Broadcasts and the registry                                             *)
(***************************************************************************)
\* task i's last send returns and broadcast_media_change returns
BroadcastReturns(i) == bc[i].pc = "sending" /\ bc'[i].pc = "done"

\* task i begins a send in this step: its first one, or the one after a
\* send that returned
SendBegins(i) ==
    /\ bc'[i].pc = "sending"
    /\ \/ bc[i].pc = "created"
       \/ /\ bc[i].pc = "sending"
          /\ connected_clients' = connected_clients
          /\ bc'[i].todo /= bc[i].todo

\* the clients a send of the returning broadcast i raised for
Failed(i) == bc'[i].disconnected

\* the clients the returning broadcast i sent to without an error
Succeeded(i) == (bc[i].sent \cup {bc[i].cur}) \ Failed(i)

\* no broadcast begins a send to a client an earlier broadcast has pruned
NoRetry == \A i \in Tasks : SendBegins(i) => bc'[i].cur \notin pruned

C10_BroadcastCompletes == \A i \in Tasks : bc[i].pc /= "crashed"

(***************************************************************************)
(* Stopping and the life of the watch loop                                 *)
(***************************************************************************)
\* stop_watching of the main provider has returned
StopReturned == phase = "stopped" /\ last_call.op = "stop_watching"

\* C12 as stated: once stop_watching has returned, the change callback is
\* not invoked, no broadcast begins a send of a media_update and the cache
\* is not written by a broadcast task.
C12_SilentAfterStop ==
    [][StopReturned =>
         /\ ~CallbackInvoked
         /\ \A i \in Tasks : ~SendBegins(i)
         /\ media_cache' = media_cache]_vars

\* the awaited fetch of the watch loop returns or raises
WatchFetchEnds ==
    /\ watch_pc = "fetch"
    /\ watch_pc' /= "fetch"
    /\ UNCHANGED <<_watching, phase>>

\* C13: the fetch of a running watch loop, whatever its outcome, leaves the
\* loop in its sleep; a fetch that raised changes nothing else, and a later
\* fetch of a changed positive snapshot notifies.  The loop wakes into the
\* next fetch while _watching is set, and its task ends only once
\* stop_watching has cleared _watching.
C13_LoopSurvivesErrors ==
    [][/\ WatchFetchEnds =>
            /\ watch_pc' = "sleep"
            /\ current' = Raised =>
                  /\ _last_media_info' = _last_media_info
                  /\ ~CallbackInvoked
            /\ ( /\ current' \notin {None, Raised}
                 /\ _has_changed(_last_media_info, current') ) => CallbackInvoked
       /\ (watch_pc = "sleep" /\ watch_pc' /= "sleep" /\ _watching' /\ _watching)
             => watch_pc' = "fetch"
       /\ (WatchTaskLive /\ ~WatchTaskLive') => ~_watching']_vars

\* C13 witness: a change was notified, then a fetch raised, and the loop has
\* slept and woken into its next fetch.
C13_Witness ==
    /\ _watching
    /\ watch_pc = "fetch"
    /\ current = Raised
    /\ _last_media_info = SongA
    /\ \E i \in Tasks : bc[i].pc = "done"

\* the state of the provider's watching and the tasks its callback created
WatchingState == <<_watching, watch_pc, sub_watching, _last_media_info, current, bc, ready>>

\* C19: start_watching on a watching provider and stop_watching on a
\* provider that is not watching and has no task change nothing: no task
\* is created, no field is written, and the call returns at once.
C19_StartStopIdempotent ==
    [][/\ (StartWatching /\ _watching) => UNCHANGED WatchingState
       /\ ( /\ StopWatchingBegin({"serving", "stopped"})
            /\ provider /= "None"
            /\ ~_watching /\ watch_pc = "none" /\ sub_watching = {} )
          => (UNCHANGED WatchingState /\ phase' = "stopped")]_vars

\* C19 witness: start_watching was called on a provider that was watching
\* with its loop asleep after a notification, and the loop is still asleep.
C19_Witness ==
    /\ last_call = [op |-> "start_watching", watching |-> TRUE]
    /\ _watching
    /\ watch_pc = "sleep"
    /\ _last_media_info /= None
    /\ phase = "stopped"

(***************************************************************************)
(* Order of the events one subscriber receives                             *)
(***************************************************************************)
\* task i's send to client c returns without an error in this step
SendSucceeds(i, c) ==
    /\ bc[i].pc = "sending"
    /\ bc[i].cur = c
    /\ c \notin bc[i].disconnected
    /\ \/ /\ bc'[i].pc = "sending"
          /\ connected_clients' = connected_clients
          /\ c \in bc'[i].sent
          /\ bc'[i].disconnected = bc[i].disconnected
          /\ bc'[i].todo /= bc[i].todo
       \/ bc'[i].pc = "done" /\ c \notin bc'[i].disconnected

\* C11 as stated: no subscriber receives the media_update of a later change
\* before that of an earlier one; the broadcast of a change delivers its
\* message to no client that the broadcast of a later change has delivered
\* to before this one began its send to that client.
C11_FifoPerSubscriber ==
    [][\A i \in Tasks, c \in Clients :
          SendSucceeds(i, c) => c \notin bc[i].overtaken]_vars

\* C17 as stated: every media_update a subscriber receives comes after its
\* connected event; no broadcast is sending to a client whose handler has
\* not yet built and begun to send the connected event.
C17_ConnectedEventFirst ==
    \A i \in Tasks : bc[i].pc = "sending" => ws[bc[i].cur] /= "fetching"

\* the handler of client c ends and its finally clause runs
HandlerEnds(c) == ws[c] /= "closed" /\ ws'[c] = "closed"

\* C20: the discard of a handler that ends and the difference_update of a
\* broadcast that returns remove the handles they name and no other; for a
\* handle that is no longer registered they leave connected_clients as it is.
C20_UnsubscribeIdempotent ==
    [][/\ \A c \in Clients :
            HandlerEnds(c) =>
               /\ connected_clients' = connected_clients \ {c}
               /\ c \notin connected_clients => connected_clients' = connected_clients
       /\ \A i \in Tasks :
            BroadcastReturns(i) =>
               /\ connected_clients' = connected_clients \ Failed(i)
               /\ Failed(i) \cap connected_clients = {}
                     => connected_clients' = connected_clients]_vars

\* C20 witness: two overlapping broadcasts both failed to send to client 1;
\* the first pruned it, the second returned with it in its disconnected set,
\* and the handler of client 1 then ended; client 2 is still registered.
C20_Witness ==
    /\ \A i \in Tasks : bc[i].pc = "done" /\ bc[i].disconnected = {1}
    /\ pruned = {1}
    /\ ws[1] = "closed"
    /\ connected_clients = {2}

(***************************************************************************)
(* The cache entry                                                         *)
(***************************************************************************)
\* C14: update_cache(None) leaves the cache as it is; the cache is None or
\* an entry that holds a snapshot, never an entry of None; and an entry,
\* once there, is never removed.
C14_AbsenceNeverCached ==
    [][/\ update_cache(media_cache, None, now) = media_cache
       /\ update_cache(media_cache', None, now') = media_cache'
       /\ media_cache' /= None => media_cache'.media \notin {None, Raised}
       /\ media_cache /= None => media_cache' /= None]_vars

\* C14 witness: 45 s after Song A was cached a query fetched none and got
\* no media; the entry of Song A is still there.
C14_Witness ==
    /\ media_cache = [media |-> SongA, timestamp |-> 0]
    /\ now = 3 * ClockStep
    /\ response /= NoResponse
    /\ response.path = "/now-playing"
    /\ response.fetched = None
    /\ response.media = None
    /\ response.last_updated = now

\* C15: no step replaces the cache entry by one with an earlier timestamp.
C15_TimestampMonotonic ==
    [][(media_cache /= None /\ media_cache' /= None)
          => media_cache'.timestamp >= media_cache.timestamp]_vars

\* C15 witness: a query cached Song A at 15 s, and at 30 s a broadcast of
\* Song B, which is still sending, has overwritten the entry.
C15_Witness ==
    /\ response /= NoResponse
    /\ response.path = "/now-playing"
    /\ response.fetched = SongA
    /\ response.last_updated = ClockStep
    /\ media_cache = [media |-> SongB, timestamp |-> 2 * ClockStep]
    /\ \E i \in Tasks : bc[i].pc = "sending" /\ bc[i].media = SongB

(***************************************************************************)
(* Serving without a provider                                              *)
(***************************************************************************)
\* C16: while provider is None no handler waits for a fetch; every answer
\* of /now-playing is HTTP 503 with media null, cached false and the error
\* "Media provider not available"; and a client that connects is sent a
\* connected event, built from the cache.
C16_DegradedWithoutProvider ==
    [][(provider = "None" /\ phase = "serving") =>
         /\ np' = "idle"
         /\ \A c \in Clients : ws'[c] /= "fetching"
         /\ (response' /= response /\ response'.path = "/now-playing") =>
               /\ response'.status_code = 503
               /\ response'.media = None
               /\ response'.cached = FALSE
               /\ response'.error = "Media provider not available"
               /\ response'.last_updated = now
         /\ \A c \in Clients :
               (ws[c] = "new" /\ ws'[c] /= "new") =>
                  /\ ws'[c] = "sending_connected"
                  /\ c \in connected_clients'
                  /\ response'.path = "/ws"
                  /\ response'.type = "connected"
                  /\ response'.media = None
                  /\ response'.cached = FALSE]_vars

\* C16 witness: without a provider a client has been sent its connected
\* event and a later query was answered 503.
C16_Witness ==
    /\ provider = "None"
    /\ phase = "serving"
    /\ ws[1] = "receiving"
    /\ response /= NoResponse
    /\ response.path = "/now-playing"
    /\ response.status_code = 503
    /\ response.last_updated = ClockStep

(***************************************************************************)
(* Keepalive                                                               *)
(***************************************************************************)
\* C18: a handler whose receive times out builds the server's ping and
\* begins to send it, and one that receives "ping" does so with "pong"; when
\* either send raises, the handler ends and its handle is no longer in
\* connected_clients, and when it returns the handler receives again and
\* stays registered.  No handler that has ended is registered.
C18_KeepaliveFailureCloses ==
    [][\A c \in Clients :
          /\ (ws[c] = "receiving" /\ ws'[c] /= "receiving") =>
                /\ ws'[c] \in {"sending_ping", "sending_pong"}
                /\ response' = KeepaliveMessage(IF ws'[c] = "sending_ping"
                                                THEN "ping" ELSE "pong")
                /\ connected_clients' = connected_clients
          /\ (ws[c] \in {"sending_ping", "sending_pong"} /\ ws'[c] /= ws[c]) =>
                IF ws'[c] = "closed"
                THEN connected_clients' = connected_clients \ {c}
                ELSE ws'[c] = "receiving" /\ connected_clients' = connected_clients
          /\ ws'[c] = "closed" => c \notin connected_clients']_vars

\* C18 witness: the last message built was the server's ping for client 1,
\* the only client that has connected; its send raised, the handler has
\* ended and client 1 is not registered.
C18_Witness ==
    /\ response = KeepaliveMessage("ping")
    /\ ws[1] = "closed"
    /\ \A c \in Clients \ {1} : ws[c] = "new"
    /\ connected_clients = {}

(***************************************************************************)
(* Shutdown of the process                                                 *)
(***************************************************************************)
\* C21: when the shutdown phase of the lifespan handler has completed, the
\* watch task of the provider is not running, connected_clients is empty and
\* no client's handler is still open.
C21_ShutdownClosesAll ==
    phase = "stopped" =>
        /\ ~WatchTaskLive
        /\ connected_clients = {}
        /\ \A c \in Clients : ws[c] \in {"new", "closed"}

(***************************************************************************)
(* Snapshots without title and artist                                      *)
(***************************************************************************)
\* C22: get_current_media never returns a snapshot whose title and artist
\* are both empty: such a result is none.
C22_NoEmptySnapshot ==
    (agg_result /= Pending /\ agg_result.media /= None) =>
        ~(agg_result.media.title = "" /\ agg_result.media.artist = "")

(***************************************************************************)
(* Failure of one constituent                                              *)
(***************************************************************************)
\* C23: the aggregate fetch never raises because a constituent's work
\* failed; the failed constituent counts as none, so that with the other
\* constituent's snapshot positive that snapshot is returned, and with
\* nothing from the other the result is none.
C23_ConstituentFailureIsolated ==
    agg_result /= Pending =>
        LET w == IF agg_result.has_waydroid THEN agg_waydroid ELSE None
        IN  /\ agg_result.media /= Raised
            /\ (agg_mpris = Raised /\ w \notin {None, Raised}) => agg_result.media = w
            /\ (w = Raised /\ agg_mpris \notin {None, Raised}) =>
                  agg_result.media = agg_mpris
            /\ (agg_mpris \in {None, Raised} /\ w \in {None, Raised}) =>
                  agg_result.media = None

\* C23 witness: the WayDroid constituent failed, MPRIS returned Song A and the
\* aggregate fetch returned Song A.
C23_Witness ==
    /\ agg_result /= Pending
    /\ agg_result.has_waydroid
    /\ agg_waydroid = Raised
    /\ agg_mpris = SongA
    /\ agg_result.media = SongA

(***************************************************************************)
(* The producer and its consumers                                          *)
(***************************************************************************)
\* C24: the step in which the watch loop's fetch returns always ends in the
\* loop's sleep, whatever sends are suspended: it creates at most one task,
\* runs none and leaves every suspended broadcast where it was.
C24_ProducerNotBlocked ==
    [][(watch_pc = "fetch" /\ watch_pc' /= "fetch") =>
          /\ watch_pc' = "sleep"
          /\ \A i \in Tasks : bc[i].pc = "sending" => bc'[i] = bc[i]
          /\ CallbackInvoked => bc'[ready'[Len(ready')]].pc = "created"]_vars

\* C24 witness: two changes were notified, both broadcasts are suspended in
\* a send that never returns, and the loop is in its next fetch.
C24_Witness ==
    /\ watch_pc = "fetch"
    /\ \A i \in Tasks : bc[i].pc = "sending"
    /\ bc[1].media /= bc[2].media
    /\ current = bc[2].media

(***************************************************************************)
(* Ticks that fetch none                                                   *)
(***************************************************************************)
\* C25: a tick that fetches none leaves the stored last snapshot none and
\* invokes no callback; when the stored last snapshot was none already, the
\* tick changes neither it nor any task.
C25_TransitionToNone ==
    [][(IsWatchTick /\ current' = None) =>
          /\ _last_media_info' = None
          /\ ~CallbackInvoked
          /\ _last_media_info = None => UNCHANGED <<_last_media_info, bc, ready>>]_vars

\* C25 witness: a positive snapshot was notified (its task has returned),
\* then a tick fetched none: the stored last snapshot is none again and no
\* task is waiting.
C25_Witness ==
    /\ watch_pc = "sleep"
    /\ current = None
    /\ _last_media_info = None
    /\ ready = <<>>
    /\ \E i \in Tasks : bc[i].pc = "done"

(***************************************************************************)
(* The two sinks of a change                                               *)
(***************************************************************************)
\* C26: every change the watch loop notifies is handed to a broadcast task,
\* and when that task runs the cache is written with the changed snapshot,
\* whatever the number of registered clients.
C26_ChangeReachesBothSinks ==
    [][/\ (IsWatchTick /\ current' \notin {None, Raised}
             /\ _has_changed(_last_media_info, current')) => CallbackInvoked
       /\ \A i \in Tasks :
             (bc[i].pc = "created" /\ bc'[i].pc /= "created") =>
                 /\ media_cache' /= None
                 /\ media_cache'.media = bc[i].media]_vars

(***************************************************************************)
(* Ticks whose fetch fails                                                 *)
(***************************************************************************)
\* C27: a tick whose fetch raised is processed as a tick that fetched none:
\* the stored last snapshot is none after it and no callback is invoked.
C27_FailureCountsAsNone ==
    [][(IsWatchTick /\ current' = Raised) =>
          /\ _last_media_info' = None
          /\ ~CallbackInvoked]_vars

(***************************************************************************)
(* The order of the notifications of one watch loop                        *)
(***************************************************************************)
\* broadcast task i runs from its start to its first await or its return
BroadcastBegins(i) == bc[i].pc = "created" /\ bc'[i].pc /= "created"

\* C28: the broadcast tasks begin in the order in which the watch loop
\* created them, and each writes the cache as it begins: no task begins
\* while a task created before it has not begun, and with a client registered
\* the cache holds the beginning task's snapshot after the step.
C28_NotificationsInOrder ==
    [][\A i \in Tasks :
          BroadcastBegins(i) =>
             /\ \A j \in bc[i].older : bc[j].pc /= "created"
             /\ \A j \in Tasks \ {i} : bc[j].pc = "created" => i \in bc[j].older
             /\ connected_clients /= {} =>
                   (media_cache' /= None /\ media_cache'.media = bc[i].media)]_vars

\* C28 witness: the broadcast of the first change is suspended in its send,
\* the broadcast of the second change has begun after it and the cache
\* holds the second snapshot.
C28_Witness ==
    /\ \A i \in Tasks : bc[i].pc = "sending"
    /\ bc[2].older = {1}
    /\ bc[1].media /= bc[2].media
    /\ media_cache /= None
    /\ media_cache.media = bc[2].media

(***************************************************************************)
(* The cache and the order of the fetches                                  *)
(***************************************************************************)
\* C29: a broadcast task whose snapshot was fetched before the one a handler
\* has cached since never replaces that entry: such a task leaves the cache
\* as it is when it begins.
C29_CacheHoldsLatestFetch ==
    [][\A i \in Tasks :
          (BroadcastBegins(i) /\ bc[i].stale) => media_cache' = media_cache]_vars

(***************************************************************************)
(* The callbacks of the hybrid provider's sources                          *)
(***************************************************************************)
\* a source's loop has stored a snapshot of its own in this step
SourceStores == source_last' /= source_last

\* C30: the change callback of the provider is invoked only by a tick of the
\* provider's own loop, with the value its own fetch returned; a tick of a
\* source's loop, whatever change it sees, creates no task and leaves the
\* provider's stored last snapshot and the cache alone.
C30_OnlyOwnFetchNotifies ==
    [][/\ CallbackInvoked =>
             /\ IsWatchTick
             /\ ~SourceStores
             /\ bc'[ready'[Len(ready')]].media = current'
       /\ SourceStores => UNCHANGED <<bc, ready, _last_media_info, media_cache>>]_vars

\* C30 witness: the loops of both sources have seen their players start
\* (MPRIS playing, WayDroid paused) and called their callbacks; the provider's
\* own loop has notified the MPRIS snapshot, which wins by priority, and
\* that is the only task there has been.
C30_Witness ==
    /\ source_last["_mpris"] = SongA
    /\ source_last["_waydroid"] = SongW
    /\ _last_media_info = SongA
    /\ bc[1].pc = "done"
    /\ bc[2].pc = "free"
    /\ ready = <<>>

(***************************************************************************)
(* Re-evaluation after a source's callback                                 *)
(***************************************************************************)
\* C31: when the loop of a source stores a positive snapshot, it calls the
\* provider's _on_source_change, and a provider whose own loop is asleep
\* fetches again at once, without waiting for the end of its sleep.
C31_SourceChangeTriggersTick ==
    [][(SourceStores /\ watch_pc = "sleep"
          /\ \E s \in sub_watching : source_last'[s] \notin {None, source_last[s]})
          => watch_pc' = "fetch"]_vars

(***************************************************************************)
(* A send that raises inside broadcast_media_change                        *)
(***************************************************************************)
\* C32: once a send of a broadcast has raised (the subscriber is in the
\* task's 'disconnected' set), the task goes on with its loop or returns;
\* it never ends with an exception.
C32_SendFailureContained ==
    [][\A i \in Tasks :
          (bc[i].pc = "sending" /\ bc[i].disconnected /= {})
              => bc'[i].pc /= "crashed"]_vars

(***************************************************************************)
(* The aggregator returns a source's snapshot                              *)
(***************************************************************************)
\* C37: a positive result of the hybrid provider's get_current_media is the
\* snapshot one of its sources returned in that fetch, field for field, and
\* the result is None only when every source it asked returned None.
C37_ResultIsAConstituents ==
    agg_result /= Pending =>
        /\ agg_result.media /= None => agg_result.media \in {agg_mpris, AggSecond}
        /\ agg_result.media = None => (agg_mpris = None /\ AggSecond = None)

C37_Witness ==
    /\ agg_result /= Pending
    /\ agg_mpris /= None /\ AggSecond /= None
    /\ agg_mpris /= AggSecond
    /\ agg_result.media = AggSecond

(***************************************************************************)
(* A snapshot that comes back after an absence: the watch loop fetching    *)
(* Song A or nothing.                                                      *)
(***************************************************************************)
ReappearNext ==
    \/ LifespanStartup({"Linux", "Windows"}, BOOLEAN)
    \/ WatchWake
    \/ WatchFetchReturn({None, SongA}, {None})
    \/ BroadcastStart(FALSE)

SpecReappear == WatchInit /\ [][ReappearNext]_vars

\* C36: a tick that fetches none forgets the stored snapshot, and a tick that
\* fetches a positive snapshot while none is stored invokes the callback with
\* it, whether or not the same snapshot was notified before the absence.
C36_NotifiedAgainAfterAbsence ==
    [][IsWatchTick =>
          /\ current' = None => _last_media_info' = None
          /\ (current' \notin {None, Raised} /\ _last_media_info = None) =>
                /\ CallbackInvoked
                /\ bc'[ready'[Len(ready')]].media = current'
                /\ _last_media_info' = current']_vars

\* C36 witness: the loop fetched Song A, then none, then Song A again, and
\* one broadcast task per occurrence is waiting to run.
C36_Witness ==
    /\ ready = <<1, 2>>
    /\ bc[1].media = SongA /\ bc[2].media = SongA
    /\ _last_media_info = SongA
    /\ watch_pc = "sleep"

(***************************************************************************)
(* The stored last snapshot across stop_watching and start_watching        *)
(***************************************************************************)
\* C38: only a tick of the watch loop changes the stored last snapshot;
\* stop_watching and start_watching leave it as it is.  So a tick that fetches
\* a positive snapshot with the stored comparison tuple, the first tick after
\* a restart included, invokes no callback.
C38_StopKeepsLastSnapshot ==
    [][/\ ~IsWatchTick => UNCHANGED _last_media_info
       /\ ( /\ IsWatchTick
            /\ current' \notin {None, Raised}
            /\ _last_media_info /= None
            /\ ChangeTuple(current') = ChangeTuple(_last_media_info) )
          => (~CallbackInvoked /\ UNCHANGED _last_media_info)]_vars

\* C38 witness: the loop had stored Song A; stop_watching returned, then
\* start_watching created a new loop task, which has not fetched yet: Song A
\* is still stored.
C38_Witness ==
    /\ phase = "stopped"
    /\ last_call = [op |-> "start_watching", watching |-> FALSE]
    /\ _watching
    /\ watch_pc = "created"
    /\ _last_media_info = SongA

(***************************************************************************)
(* The comparisons of the watch loops, applied to snapshots that differ    *)
(* from a stored one in a single field.  The VRChat provider's own         *)
(* snapshots all carry the source_app "VRChat" and an empty album; its     *)
(* comparison is applied here to any snapshot of that shape.               *)
(***************************************************************************)
SongV ==
    [source_app |-> "VRChat", title |-> "Song A", artist |-> "", album |-> "",
     status |-> "playing"]

CompareVrchat ==
    {None} \cup {m \in MediaInfo({"VRChat", "Vlc"}, {"", "Song A"}, {"", "Artist X"},
                                 {"", "Album"}) : Differences(m, SongV) <= 1}

CompareNext ==
    \/ LifespanStartup({"Windows"}, {FALSE})
    \/ WatchWake
    \/ WatchFetchReturn(PollMpris, {None})
    \/ VrchatWatchTick(CompareVrchat)
    \/ BroadcastStart(FALSE)

SpecCompare == IdleInit /\ [][CompareNext]_vars

\* the comparison tuple of the VRChat provider
VRChatTuple(m) == <<m.title, m.artist, m.status>>

\* a tick of the main provider's loop with a stored and a fetched snapshot
MainCompares ==
    IsWatchTick /\ current' \notin {None, Raised} /\ _last_media_info /= None

\* a tick of the VRChat provider's loop with a stored and a fetched snapshot
VrchatCompares ==
    /\ <<vrchat_current, vrchat_last_media_info>>' /= <<vrchat_current, vrchat_last_media_info>>
    /\ vrchat_current' \notin {None, Raised}
    /\ vrchat_last_media_info /= None

VrchatNext ==
    \/ LifespanStartup({"Windows"}, {FALSE})
    \/ WatchWake
    \/ WatchFetchReturn({None, SongA}, {None})
    \/ VrchatWatchTick(QueryVrchat)
    \/ BroadcastStart(FALSE)
    \/ NowPlayingBegin
    \/ NowPlayingFetchReturn({None, SongA}, {None})
    \/ VrchatBegin
    \/ VrchatProviderReturn(QueryVrchat)
    \/ VrchatFallbackReturn({None, SongA}, {None})

SpecVrchat == IdleInit /\ [][VrchatNext]_vars

\* C39: a tick of the VRChat provider's loop writes neither the cache nor a
\* broadcast task; /vrchat/now-playing answers from the VRChat provider's
\* positive snapshot with source "vrchat_log" and leaves the cache as it is;
\* whatever writes the cache or invokes the change callback does it with a
\* snapshot that is not the VRChat provider's.
C39_VrchatStaysOutOfCache ==
    [][/\ vrchatVars' /= vrchatVars => UNCHANGED <<media_cache, bc, ready>>
       /\ (vr = "fetching_vrchat" /\ vr' = "idle" /\ response'.source = "vrchat_log")
             => /\ response'.fetched \in QueryVrchat \ {None}
                /\ response'.media = to_dict(response'.fetched)
                /\ UNCHANGED <<media_cache, bc, ready>>
       /\ media_cache' /= media_cache => media_cache'.media.source_app /= "VRChat"
       /\ CallbackInvoked => bc'[ready'[Len(ready')]].media.source_app /= "VRChat"]_vars

\* C39 witness: the VRChat provider's loop has stored its snapshot and
\* /vrchat/now-playing has answered with it, while the cache holds Song A of
\* the main provider.
C39_Witness ==
    /\ vrchat_last_media_info = SongV
    /\ response /= NoResponse
    /\ response.path = "/vrchat/now-playing"
    /\ response.source = "vrchat_log"
    /\ response.fetched = SongV
    /\ media_cache /= None
    /\ media_cache.media = SongA

(***************************************************************************)
(* start_watching and stop_watching of the main provider in any order, a   *)
(* start during a suspended stop included; no start follows the return of  *)
(* a stop.                                                                 *)
(***************************************************************************)
RaceNext ==
    \/ LifespanStartup({"Linux", "Windows"}, BOOLEAN)
    \/ (phase = "serving" /\ StartWatching)
    \/ StartWatchingDuringStop
    \/ StopWatchingBegin({"serving", "stopped"})
    \/ StopWatchingReturn
    \/ UntrackedWake
    \/ WatchWake
    \/ WatchFetchReturn({None, SongA}, {None})
    \/ BroadcastStart(FALSE)

SpecRace == IdleInit /\ [][RaceNext]_vars

\* C35 as stated: at most one loop task of the provider is running at any
\* time, and none is running once stop_watching has returned.
C35_AtMostOneLoopTask ==
    /\ ~(WatchTaskLive /\ untracked_pc = "running")
    /\ phase = "stopped" => (~WatchTaskLive /\ untracked_pc = "none")

(***************************************************************************)
(* The Discord presence client (discord_presence.py): a process of its own *)
(* with its own provider.  "remote" is what Discord shows.                 *)
(***************************************************************************)
\* number of times Discord closes the pipe of a connected client
MaxClosures == 1

\* DiscordMediaPresence._get_status_text
_get_status_text(status) ==
    IF status = "playing" THEN "Playing"
    ELSE IF status = "paused" THEN "Paused"
    ELSE IF status = "stopped" THEN "Stopped"
    ELSE ""

\* DiscordMediaPresence._get_large_image_key: APP_ICONS.get(lower, "music")
_get_large_image_key(source_app) ==
    IF source_app = "Spotify" THEN "spotify"
    ELSE IF source_app = "Vlc" THEN "vlc"
    ELSE "music"

\* the arguments of rpc.update for a snapshot; "state" lists the non-empty
\* ones of artist and album, which the code joins with " - "
Presence(media) ==
    [details |-> media.title,
     state |-> SelectSeq(<<media.artist, media.album>>, LAMBDA x : x /= ""),
     large_image |-> _get_large_image_key(media.source_app),
     large_text |-> media.source_app,
     small_image |-> IF media.status = "playing" THEN "playing" ELSE "paused",
     small_text |-> _get_status_text(media.status)]

\* "if media is None or not media.title:" of update_presence
NoMediaPlaying(media) == media = None \/ media.title = ""

\* what Discord shows once update_presence(media) has succeeded
Shown(media) == IF NoMediaPlaying(media) THEN None ELSE Presence(media)

\* DiscordMediaPresence._media_changed
_media_changed(last_media, cur) ==
    IF last_media = None /\ cur = None THEN FALSE
    ELSE IF last_media = None \/ cur = None THEN TRUE
    ELSE \/ last_media.title /= cur.title
         \/ last_media.artist /= cur.artist
         \/ last_media.status /= cur.status
         \/ last_media.source_app /= cur.source_app

\* run up to its loop: get_provider and connect, which succeeds or not
DiscordConnect(oks) ==
    /\ dp_pc = "none"
    /\ \E ok \in oks :
          /\ rpc' = IF ok THEN "connected" ELSE "closed"
          /\ running' = ok
          /\ dp_pc' = IF ok THEN "fetch" ELSE "returned"
    /\ UNCHANGED <<_last_media, dp_media, remote, closures>>
    /\ UNCHANGED <<vrchatVars, untracked_pc, aggVars, provVars, watchVars, now,
                   media_cache, httpVars, wsVars, bcVars>>

\* the signal handler calls stop()
DiscordStop ==
    /\ running
    /\ running' = FALSE
    /\ UNCHANGED <<rpc, _last_media, dp_media, dp_pc, remote, closures>>
    /\ UNCHANGED <<vrchatVars, untracked_pc, aggVars, provVars, watchVars, now,
                   media_cache, httpVars, wsVars, bcVars>>

\* "while self.running:" after a sleep; when the loop ends, disconnect()
\* clears the presence if the pipe still works
DiscordWake ==
    /\ dp_pc = "sleep"
    /\ IF running
       THEN /\ dp_pc' = "fetch"
            /\ UNCHANGED <<rpc, remote>>
       ELSE /\ dp_pc' = "returned"
            /\ rpc' = "none"
            /\ remote' \in (IF rpc = "connected" THEN {None} ELSE {remote, None})
    /\ UNCHANGED <<_last_media, dp_media, running, closures>>
    /\ UNCHANGED <<vrchatVars, untracked_pc, aggVars, provVars, watchVars, now,
                   media_cache, httpVars, wsVars, bcVars>>

\* update_presence: "if not self.rpc: return", else the call of the pipe
on_change == IF rpc = "none" THEN "sleep" ELSE "updating"

\* "media = await self.provider.get_current_media()" returns or raises; a
\* changed snapshot is stored in _last_media before update_presence is
\* called, which suspends in rpc.clear() or rpc.update(...)
DiscordFetchReturn(outcomes) ==
    /\ dp_pc = "fetch"
    /\ \E out \in outcomes :
          /\ dp_media' = out
          /\ IF out /= Raised /\ _media_changed(_last_media, out)
             THEN /\ _last_media' = out
                  /\ dp_pc' = on_change
             ELSE /\ dp_pc' = "sleep"
                  /\ UNCHANGED _last_media
    /\ UNCHANGED <<rpc, remote, running, closures>>
    /\ UNCHANGED <<vrchatVars, untracked_pc, aggVars, provVars, watchVars, now,
                   media_cache, httpVars, wsVars, bcVars>>

\* where update_presence goes when PipeClosed is raised
on_pipe_closed_gives_up == "sleep"

\* "except PipeClosed: ... await self.connect()"
on_pipe_closed == "reconnecting"

\* the awaited rpc.clear() or rpc.update(...) returns or raises.  A client
\* whose pipe is not connected cannot succeed.  What Discord shows once the
\* pipe has closed is Discord's choice.
DiscordUpdateReturn(outcomes) ==
    /\ dp_pc = "updating"
    /\ \E o \in outcomes :
          /\ o = "ok" => rpc = "connected"
          /\ (o = "PipeClosed" /\ rpc = "connected") => closures < MaxClosures
          /\ IF o = "ok"
             THEN /\ remote' = Shown(dp_media)
                  /\ dp_pc' = "sleep"
                  /\ UNCHANGED <<rpc, closures>>
             ELSE IF o = "PipeClosed"
             THEN /\ remote' \in {remote, None}
                  /\ rpc' = "closed"
                  /\ closures' = IF rpc = "connected" THEN closures + 1 ELSE closures
                  /\ dp_pc' = on_pipe_closed
             ELSE /\ dp_pc' = "sleep"
                  /\ UNCHANGED <<rpc, remote, closures>>
    /\ UNCHANGED <<_last_media, dp_media, running>>
    /\ UNCHANGED <<vrchatVars, untracked_pc, aggVars, provVars, watchVars, now,
                   media_cache, httpVars, wsVars, bcVars>>

\* connect() called by update_presence returns: self.rpc is the new
\* AioPresence whether or not its connect succeeded; update_presence returns
\* and the loop sleeps
DiscordReconnectReturn(oks) ==
    /\ dp_pc = "reconnecting"
    /\ \E ok \in oks : rpc' = IF ok THEN "connected" ELSE "closed"
    /\ dp_pc' = "sleep"
    /\ UNCHANGED <<_last_media, dp_media, remote, running, closures>>
    /\ UNCHANGED <<vrchatVars, untracked_pc, aggVars, provVars, watchVars, now,
                   media_cache, httpVars, wsVars, bcVars>>

\* what the provider of the presence process returns: nothing, a song, a
\* snapshot without a title, the song with another album, or an error
DiscordOutcomes == {None, SongA, SongB, [SongA EXCEPT !.album = ""], Raised}

\* how a call of the pipe ends: it returns, raises PipeClosed or raises
\* another exception
UpdateOutcomes == {"ok", "PipeClosed", "error"}

DiscordNext ==
    \/ DiscordConnect(BOOLEAN)
    \/ DiscordStop
    \/ DiscordWake
    \/ DiscordFetchReturn(DiscordOutcomes)
    \/ DiscordUpdateReturn(UpdateOutcomes)
    \/ DiscordReconnectReturn(BOOLEAN)

SpecDiscord == IdleInit /\ [][DiscordNext]_vars

\* update_presence is called in this step
UpdateBegins == dp_pc = "fetch" /\ dp_pc' = "updating"

\* C33: when the fetched snapshot becomes absent (none or without a title)
\* update_presence is called with it, and its rpc.clear(), once it returns,
\* leaves Discord showing nothing; when the call raises PipeClosed the client
\* calls connect().
C33_ClearsAndReconnects ==
    [][/\ ( /\ dp_pc = "fetch" /\ dp_pc' /= "fetch"
            /\ dp_media' /= Raised
            /\ NoMediaPlaying(dp_media')
            /\ ~NoMediaPlaying(_last_media) )
          => (UpdateBegins /\ _last_media' = dp_media')
       /\ (dp_pc = "updating" /\ dp_pc' = "sleep" /\ remote' /= remote)
          => remote' = (IF NoMediaPlaying(dp_media) THEN None ELSE Presence(dp_media))
       /\ (dp_pc = "updating" /\ rpc = "connected" /\ rpc' = "closed")
          => dp_pc' = "reconnecting"
       /\ (dp_pc = "reconnecting" /\ dp_pc' /= dp_pc)
          => (dp_pc' = "sleep" /\ rpc' \in {"connected", "closed"})]_vars

\* C33 witness: the client has reconnected after a closed pipe and Discord
\* shows Song A; the fetched snapshot has become absent and the client is
\* in its rpc.clear().
C33_Witness ==
    /\ closures = 1
    /\ rpc = "connected"
    /\ remote = Presence(SongA)
    /\ dp_media = None
    /\ _last_media = None
    /\ dp_pc = "updating"

(***************************************************************************)
(* The presence loop while Discord is reachable again after every closed   *)
(* pipe: connect succeeds, a call of the pipe returns or meets a closed    *)
(* pipe, and the loop is never stopped.  Every step of the loop that can   *)
(* be taken is taken in the end.                                           *)
(***************************************************************************)
RetryOutcomes ==
    {None, SongA, SongB, [SongA EXCEPT !.album = ""],
     [SongA EXCEPT !.source_app = "Vlc"], [SongA EXCEPT !.status = "paused"]}

RetryUpdateOutcomes == {"ok", "PipeClosed"}

RetryNext ==
    \/ DiscordConnect({TRUE})
    \/ DiscordWake
    \/ DiscordFetchReturn(RetryOutcomes)
    \/ DiscordUpdateReturn(RetryUpdateOutcomes)
    \/ DiscordReconnectReturn({TRUE})

SpecDiscordRetry ==
    /\ IdleInit
    /\ [][RetryNext]_vars
    /\ WF_vars(DiscordConnect({TRUE}))
    /\ WF_vars(DiscordWake)
    /\ WF_vars(DiscordFetchReturn(RetryOutcomes))
    /\ WF_vars(DiscordUpdateReturn(RetryUpdateOutcomes))
    /\ WF_vars(DiscordReconnectReturn({TRUE}))

\* the update of the stored snapshot was lost with the pipe and the client
\* has reconnected
UpdateLost ==
    /\ dp_pc = "sleep"
    /\ rpc = "connected"
    /\ ~NoMediaPlaying(_last_media)
    /\ remote /= Presence(_last_media)

\* C40: once the update of a changed snapshot has been lost with the pipe
\* and the client has reconnected, Discord comes to show the snapshot the
\* client has stored, whether or not the media changes again.
C40_LostUpdateResent == UpdateLost ~> (remote = Shown(_last_media))

====
